---- MODULE Spec2Model ----
(***************************************************************************)
(* A model of bsn: the OAuth credential lifecycle (src/auth/oauth.py), the *)
(* quota ledger (src/youtube/quota.py), the quota-gated API client and the *)
(* channel diff (src/youtube/youtube.py) and the polling loop              *)
(* (src/main.py).                                                          *)
(*                                                                         *)
(* Python's None is "None" for string-valued fields and Null for record    *)
(* valued ones (a row, a datetime).  Time is in seconds.                   *)
(***************************************************************************)
EXTENDS Integers, Sequences, FiniteSets, TLC

VARIABLES
    now,         \* the clock: seconds since 00:00 of day 0 in the reset timezone
    hostOffset,  \* host-local wall clock minus reset-timezone wall clock, seconds
    env,         \* GOOGLE_CLIENT_ID / GOOGLE_CLIENT_SECRET of the process
    creds,       \* table oauth_credential: a set of rows
    call,        \* the last call of an OAuth operation: inputs, result, trace
    policy,      \* table quota_policy: Null or the YOUTUBE row
    usages,      \* table quota_usage: a sequence of rows (index = id)
    channels,    \* table youtube_channel: a set of rows
    videos,      \* table youtube_video: a set of rows
    pc,          \* main()'s position
    loc,         \* main()'s and its callees' local variables
    executed,    \* history: per day of the reset timezone, the units of API requests executed
    events,      \* history: what the current polling operation did, in order
    cycles       \* history: loop iterations started

vars == <<now, hostOffset, env, creds, call, policy, usages, channels, videos,
          pc, loc, executed, events, cycles>>

Null == [none |-> TRUE]

Max(S) == CHOOSE x \in S : \A y \in S : y <= x
Min(S) == CHOOSE x \in S : \A y \in S : x <= y

\* ------------------------------------------------------------------ bounds

MaxNow == 2            \* SpecAuth: the clock runs over 0..MaxNow seconds
MaxDeviceExpiry == 2   \* device codes live 1..MaxDeviceExpiry seconds
MaxPolls == 2          \* token-endpoint responses scripted per device grant

\* -------------------------------------------------------------- datetimes

\* A datetime: its wall-clock reading and its tzinfo (naive, or aware with a
\* UTC offset in seconds).
Naive(w) == [wall |-> w, aware |-> FALSE, utcoffset |-> 0]
Aware(w, off) == [wall |-> w, aware |-> TRUE, utcoffset |-> off]

\* datetime.replace(tzinfo=timezone.utc): the reading is kept
ReplaceTzUtc(dt) == [wall |-> dt.wall, aware |-> TRUE, utcoffset |-> 0]

\* the instant of an aware datetime, seconds UTC
Instant(dt) == dt.wall - dt.utcoffset

\* ------------------------------------------------------ oauth: constants

REFRESH_MARGIN_SECONDS == 300
SLOW_DOWN_INCREMENT == 5

\* ------------------------------------------------- oauth: credential store

NextCredentialId(store) ==
    IF store = {} THEN 1 ELSE Max({r.id : r \in store}) + 1

load_credential(store) ==
    IF store = {} THEN Null
    ELSE CHOOSE r \in store : \A q \in store : r.id <= q.id

\* creds: [token, refresh_token, expiry]; db_row: a row or Null; an identity
\* argument left out is "None".
save_credential_drop_identity(store, c, db_row, user_id, user_email, client_id, client_secret) ==
    LET base == IF db_row # Null THEN db_row
                ELSE [id |-> NextCredentialId(store)]
        row == [id |-> base.id,
                access_token |-> c.token,
                refresh_token |-> c.refresh_token,
                expiry |-> c.expiry,
                client_id |-> client_id,
                client_secret |-> client_secret,
                user_id |-> user_id,
                user_email |-> user_email]
    IN [store |-> {r \in store : r.id # row.id} \cup {row}, row |-> row]

save_credential_always_insert(store, c, db_row, user_id, user_email, client_id, client_secret) ==
    LET row == [id |-> NextCredentialId(store),
                access_token |-> c.token,
                refresh_token |-> c.refresh_token,
                expiry |-> c.expiry,
                client_id |-> IF client_id # "None" THEN client_id
                              ELSE IF db_row # Null THEN db_row.client_id ELSE "None",
                client_secret |-> IF client_secret # "None" THEN client_secret
                                  ELSE IF db_row # Null THEN db_row.client_secret ELSE "None",
                user_id |-> IF user_id # "None" THEN user_id
                            ELSE IF db_row # Null THEN db_row.user_id ELSE "None",
                user_email |-> IF user_email # "None" THEN user_email
                               ELSE IF db_row # Null THEN db_row.user_email ELSE "None"]
    IN [store |-> store \cup {row}, row |-> row]

save_credential(store, c, db_row, user_id, user_email, client_id, client_secret) ==
    LET base == IF db_row # Null THEN db_row      \* session.merge(db_row)
                ELSE [id |-> NextCredentialId(store),
                      client_id |-> "None", client_secret |-> "None",
                      user_id |-> "None", user_email |-> "None"]
        row == [id |-> base.id,
                access_token |-> c.token,
                refresh_token |-> c.refresh_token,
                expiry |-> c.expiry,
                client_id |-> IF client_id # "None" THEN client_id ELSE base.client_id,
                client_secret |-> IF client_secret # "None" THEN client_secret
                                  ELSE base.client_secret,
                user_id |-> IF user_id # "None" THEN user_id ELSE base.user_id,
                user_email |-> IF user_email # "None" THEN user_email
                               ELSE base.user_email]
    IN [store |-> {r \in store : r.id # row.id} \cup {row}, row |-> row]

delete_credential_noop(store, db_row) == store

delete_credential(store, db_row) == {r \in store : r.id # db_row.id}

\* ---------------------------------------------------- oauth: _is_expired

is_expired_strict(expiry, nowUtc, margin_seconds) ==
    IF expiry = Null THEN FALSE
    ELSE LET e == IF ~expiry.aware THEN ReplaceTzUtc(expiry) ELSE expiry
             seconds_remaining == Instant(e) - nowUtc
         IN seconds_remaining < margin_seconds

is_expired(expiry, nowUtc, margin_seconds) ==
    IF expiry = Null THEN FALSE
    ELSE LET e == IF ~expiry.aware THEN ReplaceTzUtc(expiry) ELSE expiry
             seconds_remaining == Instant(e) - nowUtc
         IN seconds_remaining <= margin_seconds

\* ----------------------------------------------- oauth: refresh_credential

\* net: the token endpoint's answer to the one exchange creds.refresh() makes:
\* [ok |-> FALSE], or [ok |-> TRUE, access_token, refresh_token ("None": not
\* rotated), expires_in ("None" as Null-free encoding: see Lifetime)].
FalsyStr(s) == s \in {"None", ""}

\* expiry of a token granted at instant t with lifetime life (a set: {} when
\* the response carries no expires_in, {n} otherwise), stored as naive UTC
ExpiryFrom(t, life) == IF life = {} THEN Null ELSE Naive(t + Max(life))

refresh_credential_retry(store, row, net, t) ==
    IF FalsyStr(row.refresh_token)
    THEN [store |-> delete_credential(store, row), result |-> Null,
          exchanges |-> 0, trace |-> <<"delete">>]
    ELSE IF ~net.ok
    THEN [store |-> delete_credential(store, row), result |-> Null,
          exchanges |-> 2, trace |-> <<"exchange", "exchange", "delete">>]
    ELSE LET c == [token |-> net.access_token,
                   refresh_token |-> IF net.refresh_token = "None"
                                     THEN row.refresh_token ELSE net.refresh_token,
                   expiry |-> ExpiryFrom(t, net.expires_in)]
             s == save_credential(store, c, row, "None", "None", "None", "None")
         IN [store |-> s.store, result |-> s.row,
             exchanges |-> 1, trace |-> <<"exchange", "save">>]

refresh_credential_keep_row(store, row, net, t) ==
    IF FalsyStr(row.refresh_token)
    THEN [store |-> store, result |-> Null,
          exchanges |-> 0, trace |-> << >>]
    ELSE IF ~net.ok
    THEN [store |-> delete_credential(store, row), result |-> Null,
          exchanges |-> 1, trace |-> <<"exchange", "delete">>]
    ELSE LET c == [token |-> net.access_token,
                   refresh_token |-> IF net.refresh_token = "None"
                                     THEN row.refresh_token ELSE net.refresh_token,
                   expiry |-> ExpiryFrom(t, net.expires_in)]
             s == save_credential(store, c, row, "None", "None", "None", "None")
         IN [store |-> s.store, result |-> s.row,
             exchanges |-> 1, trace |-> <<"exchange", "save">>]

refresh_credential(store, row, net, t) ==
    IF FalsyStr(row.refresh_token)
    THEN [store |-> delete_credential(store, row), result |-> Null,
          exchanges |-> 0, trace |-> <<"delete">>]
    ELSE IF ~net.ok
    THEN [store |-> delete_credential(store, row), result |-> Null,
          exchanges |-> 1, trace |-> <<"exchange", "delete">>]
    ELSE LET c == [token |-> net.access_token,
                   refresh_token |-> IF net.refresh_token = "None"
                                     THEN row.refresh_token ELSE net.refresh_token,
                   expiry |-> ExpiryFrom(t, net.expires_in)]
             s == save_credential(store, c, row, "None", "None", "None", "None")
         IN [store |-> s.store, result |-> s.row,
             exchanges |-> 1, trace |-> <<"exchange", "save">>]

\* ------------------------------------------- oauth: the device grant flow

\* responses: the token endpoint's scripted answers, in order; once the script
\* is used up the user has still not authorised ("authorization_pending").
ResponseAt(responses, i) ==
    IF i <= Len(responses) THEN responses[i] ELSE "authorization_pending"

\* t: time.monotonic() minus its value on entry; waits: the sleeps so far
RECURSIVE poll_loop_double_on_slow_down(_, _, _, _, _, _)
poll_loop_double_on_slow_down(responses, i, interval, t, deadline, waits) ==
    IF ~(t < deadline)
    THEN [outcome |-> "deadline", elapsed |-> t, waits |-> waits]
    ELSE LET t2 == t + interval
             w2 == Append(waits, interval)
             error == ResponseAt(responses, i)
         IN IF error = "transport_error"
            THEN [outcome |-> "raised", elapsed |-> t2, waits |-> w2]
            ELSE IF error = "authorization_pending"
            THEN poll_loop_double_on_slow_down(responses, i + 1, interval, t2,
                                               deadline, w2)
            ELSE IF error = "slow_down"
            THEN poll_loop_double_on_slow_down(responses, i + 1, interval * 2,
                                               t2, deadline, w2)
            ELSE IF error # "success"
            THEN [outcome |-> "error", elapsed |-> t2, waits |-> w2]
            ELSE [outcome |-> "success", elapsed |-> t2, waits |-> w2]

RECURSIVE poll_loop(_, _, _, _, _, _)
poll_loop(responses, i, interval, t, deadline, waits) ==
    IF ~(t < deadline)
    THEN [outcome |-> "deadline", elapsed |-> t, waits |-> waits]
    ELSE LET t2 == t + interval                      \* time.sleep(interval)
             w2 == Append(waits, interval)
             error == ResponseAt(responses, i)       \* requests.post, resp.json()
         IN IF error = "transport_error"
            THEN [outcome |-> "raised", elapsed |-> t2, waits |-> w2]
            ELSE IF error = "authorization_pending"
            THEN poll_loop(responses, i + 1, interval, t2, deadline, w2)
            ELSE IF error = "slow_down"
            THEN poll_loop(responses, i + 1, interval + SLOW_DOWN_INCREMENT, t2,
                           deadline, w2)
            ELSE IF error # "success"
            THEN [outcome |-> "error", elapsed |-> t2, waits |-> w2]
            ELSE [outcome |-> "success", elapsed |-> t2, waits |-> w2]

poll_for_tokens(responses, interval, expires_in) ==
    poll_loop(responses, 1, interval, 0, expires_in, << >>)

RECURSIVE Repeat(_, _)
Repeat(x, n) == IF n = 0 THEN << >> ELSE <<x>> \o Repeat(x, n - 1)

\* e: the environment's client id and secret; dev: what the provider's
\* endpoints do during this grant; t: the clock on entry.  outcome names the
\* return statement taken.
authenticate_with_device_code_show_after_poll(store, e, dev, t) ==
    IF FalsyStr(e.client_id) \/ FalsyStr(e.client_secret)
    THEN [store |-> store, result |-> Null, raised |-> FALSE, elapsed |-> 0,
          trace |-> << >>, waits |-> << >>, outcome |-> "no_client"]
    ELSE IF ~dev.fetch_ok
    THEN [store |-> store, result |-> Null, raised |-> FALSE, elapsed |-> 0,
          trace |-> <<"fetch_device_code">>, waits |-> << >>,
          outcome |-> "fetch_failed"]
    ELSE LET p == poll_for_tokens(dev.polls, dev.interval, dev.expires_in)
             tr == <<"fetch_device_code">> \o Repeat("poll", Len(p.waits)) \o
                   <<"show_code">>
         IN IF p.outcome = "raised"
            THEN [store |-> store, result |-> Null, raised |-> TRUE,
                  elapsed |-> p.elapsed, trace |-> tr, waits |-> p.waits,
                  outcome |-> "raised"]
            ELSE IF p.outcome # "success"
            THEN [store |-> store, result |-> Null, raised |-> FALSE,
                  elapsed |-> p.elapsed, trace |-> tr, waits |-> p.waits,
                  outcome |-> p.outcome]
            ELSE LET c == [token |-> dev.access_token,
                           refresh_token |-> dev.refresh_token,
                           expiry |-> ExpiryFrom(t + p.elapsed, dev.expires_in_secs)]
                     user_id == IF dev.profile_ok THEN "uid1" ELSE "None"
                     user_email == IF dev.profile_ok THEN "u1@e" ELSE "None"
                     s == save_credential(store, c, Null, user_id, user_email,
                                          e.client_id, e.client_secret)
                 IN [store |-> s.store, result |-> s.row, raised |-> FALSE,
                     elapsed |-> p.elapsed,
                     trace |-> tr \o <<"fetch_user_info", "save">>,
                     waits |-> p.waits, outcome |-> "success"]

authenticate_with_device_code_expiry_from_entry(store, e, dev, t) ==
    IF FalsyStr(e.client_id) \/ FalsyStr(e.client_secret)
    THEN [store |-> store, result |-> Null, raised |-> FALSE, elapsed |-> 0,
          trace |-> << >>, waits |-> << >>, outcome |-> "no_client"]
    ELSE IF ~dev.fetch_ok
    THEN [store |-> store, result |-> Null, raised |-> FALSE, elapsed |-> 0,
          trace |-> <<"fetch_device_code">>, waits |-> << >>,
          outcome |-> "fetch_failed"]
    ELSE LET p == poll_for_tokens(dev.polls, dev.interval, dev.expires_in)
             tr == <<"fetch_device_code", "show_code">> \o Repeat("poll", Len(p.waits))
         IN IF p.outcome = "raised"
            THEN [store |-> store, result |-> Null, raised |-> TRUE,
                  elapsed |-> p.elapsed, trace |-> tr, waits |-> p.waits,
                  outcome |-> "raised"]
            ELSE IF p.outcome # "success"
            THEN [store |-> store, result |-> Null, raised |-> FALSE,
                  elapsed |-> p.elapsed, trace |-> tr, waits |-> p.waits,
                  outcome |-> p.outcome]
            ELSE LET c == [token |-> dev.access_token,
                           refresh_token |-> dev.refresh_token,
                           expiry |-> ExpiryFrom(t, dev.expires_in_secs)]
                     user_id == IF dev.profile_ok THEN "uid1" ELSE "None"
                     user_email == IF dev.profile_ok THEN "u1@e" ELSE "None"
                     s == save_credential(store, c, Null, user_id, user_email,
                                          e.client_id, e.client_secret)
                 IN [store |-> s.store, result |-> s.row, raised |-> FALSE,
                     elapsed |-> p.elapsed,
                     trace |-> tr \o <<"fetch_user_info", "save">>,
                     waits |-> p.waits, outcome |-> "success"]

authenticate_with_device_code_fetch_first(store, e, dev, t) ==
    IF FalsyStr(e.client_id) \/ FalsyStr(e.client_secret)
    THEN [store |-> store, result |-> Null, raised |-> FALSE, elapsed |-> 0,
          trace |-> <<"fetch_device_code">>, waits |-> << >>, outcome |-> "no_client"]
    ELSE IF ~dev.fetch_ok
    THEN [store |-> store, result |-> Null, raised |-> FALSE, elapsed |-> 0,
          trace |-> <<"fetch_device_code">>, waits |-> << >>,
          outcome |-> "fetch_failed"]
    ELSE LET p == poll_for_tokens(dev.polls, dev.interval, dev.expires_in)
             tr == <<"fetch_device_code", "show_code">> \o Repeat("poll", Len(p.waits))
         IN IF p.outcome = "raised"
            THEN [store |-> store, result |-> Null, raised |-> TRUE,
                  elapsed |-> p.elapsed, trace |-> tr, waits |-> p.waits,
                  outcome |-> "raised"]
            ELSE IF p.outcome # "success"
            THEN [store |-> store, result |-> Null, raised |-> FALSE,
                  elapsed |-> p.elapsed, trace |-> tr, waits |-> p.waits,
                  outcome |-> p.outcome]
            ELSE LET c == [token |-> dev.access_token,
                           refresh_token |-> dev.refresh_token,
                           expiry |-> ExpiryFrom(t + p.elapsed, dev.expires_in_secs)]
                     user_id == IF dev.profile_ok THEN "uid1" ELSE "None"
                     user_email == IF dev.profile_ok THEN "u1@e" ELSE "None"
                     s == save_credential(store, c, Null, user_id, user_email,
                                          e.client_id, e.client_secret)
                 IN [store |-> s.store, result |-> s.row, raised |-> FALSE,
                     elapsed |-> p.elapsed,
                     trace |-> tr \o <<"fetch_user_info", "save">>,
                     waits |-> p.waits, outcome |-> "success"]

authenticate_with_device_code(store, e, dev, t) ==
    IF FalsyStr(e.client_id) \/ FalsyStr(e.client_secret)
    THEN [store |-> store, result |-> Null, raised |-> FALSE, elapsed |-> 0,
          trace |-> << >>, waits |-> << >>, outcome |-> "no_client"]
    ELSE IF ~dev.fetch_ok
    THEN [store |-> store, result |-> Null, raised |-> FALSE, elapsed |-> 0,
          trace |-> <<"fetch_device_code">>, waits |-> << >>,
          outcome |-> "fetch_failed"]
    ELSE LET p == poll_for_tokens(dev.polls, dev.interval, dev.expires_in)
             tr == <<"fetch_device_code", "show_code">> \o Repeat("poll", Len(p.waits))
         IN IF p.outcome = "raised"
            THEN [store |-> store, result |-> Null, raised |-> TRUE,
                  elapsed |-> p.elapsed, trace |-> tr, waits |-> p.waits,
                  outcome |-> "raised"]
            ELSE IF p.outcome # "success"
            THEN [store |-> store, result |-> Null, raised |-> FALSE,
                  elapsed |-> p.elapsed, trace |-> tr, waits |-> p.waits,
                  outcome |-> p.outcome]
            ELSE LET c == [token |-> dev.access_token,
                           refresh_token |-> dev.refresh_token,
                           expiry |-> ExpiryFrom(t + p.elapsed, dev.expires_in_secs)]
                     user_id == IF dev.profile_ok THEN "uid1" ELSE "None"
                     user_email == IF dev.profile_ok THEN "u1@e" ELSE "None"
                     s == save_credential(store, c, Null, user_id, user_email,
                                          e.client_id, e.client_secret)
                 IN [store |-> s.store, result |-> s.row, raised |-> FALSE,
                     elapsed |-> p.elapsed,
                     trace |-> tr \o <<"fetch_user_info", "save">>,
                     waits |-> p.waits, outcome |-> "success"]

\* ---------------------------------------- oauth: revoke_expired_tokens

\* session.query(OauthCredential).all(): the rows in id order
RECURSIVE RowsInOrder(_)
RowsInOrder(store) ==
    IF store = {} THEN << >>
    ELSE LET first == load_credential(store)
         IN <<first>> \o RowsInOrder(store \ {first})

\* the for loop of revoke_expired_tokens from row i on.  nets[id]: what the
\* token endpoint answers to the refresh of row id, and whether the revoke
\* request for it goes through (a failure is caught and logged).
RECURSIVE revoke_loop_keep_on_failed_revoke(_, _, _, _, _, _)
revoke_loop_keep_on_failed_revoke(store, rows, i, nets, t, trace) ==
    IF i > Len(rows) THEN [store |-> store, raised |-> FALSE, trace |-> trace]
    ELSE LET row == rows[i]
         IN IF ~is_expired(row.expiry, t, REFRESH_MARGIN_SECONDS)
            THEN revoke_loop_keep_on_failed_revoke(store, rows, i + 1, nets, t, trace)
            ELSE IF ~FalsyStr(row.refresh_token)
            THEN LET r == refresh_credential(store, row, nets[row.id].refresh, t)
                 IN revoke_loop_keep_on_failed_revoke(r.store, rows, i + 1, nets, t,
                           Append(trace, [id |-> row.id, step |-> "refresh"]))
            ELSE LET revoked == ~FalsyStr(row.access_token)
                 IN revoke_loop_keep_on_failed_revoke(IF revoked /\ ~nets[row.id].revoke_ok THEN store
                                 ELSE delete_credential(store, row),
                           rows, i + 1, nets, t,
                           Append(trace, [id |-> row.id,
                                          step |-> IF revoked THEN "revoke_delete"
                                                   ELSE "delete"]))

RECURSIVE revoke_loop(_, _, _, _, _, _)
revoke_loop(store, rows, i, nets, t, trace) ==
    IF i > Len(rows) THEN [store |-> store, raised |-> FALSE, trace |-> trace]
    ELSE LET row == rows[i]
         IN IF ~is_expired(row.expiry, t, REFRESH_MARGIN_SECONDS)
            THEN revoke_loop(store, rows, i + 1, nets, t, trace)
            ELSE IF ~FalsyStr(row.refresh_token)
            THEN LET r == refresh_credential(store, row, nets[row.id].refresh, t)
                 IN revoke_loop(r.store, rows, i + 1, nets, t,
                           Append(trace, [id |-> row.id, step |-> "refresh"]))
            ELSE LET revoked == ~FalsyStr(row.access_token)
                 IN revoke_loop(delete_credential(store, row),
                           rows, i + 1, nets, t,
                           Append(trace, [id |-> row.id,
                                          step |-> IF revoked THEN "revoke_delete"
                                                   ELSE "delete"]))

revoke_expired_tokens(store, nets, t) ==
    revoke_loop(store, RowsInOrder(store), 1, nets, t, << >>)

\* --------------------------- oauth: get_authenticated_youtube_service

\* The trace of a call lists what it did, each step with its outcome:
\* "load", "device_auth:row" / "device_auth:None" / "device_auth:raised",
\* "refresh:row" / "refresh:None", "build:ok" / "build:failed".
DeviceSteps == {"device_auth:row", "device_auth:None", "device_auth:raised"}
RefreshSteps == {"refresh:row", "refresh:None"}
BuildSteps == {"build:ok", "build:failed"}

DeviceStep(d) ==
    IF d.raised THEN "device_auth:raised"
    ELSE IF d.result = Null THEN "device_auth:None" ELSE "device_auth:row"

\* After the credential row is settled: build the service.
build_service(store, row, net, elapsed, trace) ==
    [store |-> store, raised |-> FALSE, elapsed |-> elapsed, row |-> row,
     result |-> IF net.build_ok THEN "service" ELSE "None",
     trace |-> Append(trace, IF net.build_ok THEN "build:ok" ELSE "build:failed")]

\* From the expiry check on (oauth.py lines 450-477).
refresh_then_build(store, row, e, net, t, elapsed, trace) ==
    IF ~is_expired(row.expiry, t + elapsed, REFRESH_MARGIN_SECONDS)
    THEN build_service(store, row, net, elapsed, trace)
    ELSE LET r == refresh_credential(store, row, net.refresh, t + elapsed)
         IN IF r.result # Null
            THEN build_service(r.store, r.result, net, elapsed,
                               Append(trace, "refresh:row"))
            ELSE LET d == authenticate_with_device_code(r.store, e, net.device2,
                                                        t + elapsed)
                     tr2 == trace \o <<"refresh:None", DeviceStep(d)>>
                 IN IF d.raised \/ d.result = Null
                    THEN [store |-> d.store, raised |-> d.raised, row |-> Null,
                          elapsed |-> elapsed + d.elapsed, result |-> "None",
                          trace |-> tr2]
                    ELSE build_service(d.store, d.result, net,
                                       elapsed + d.elapsed, tr2)

get_authenticated_youtube_service_device_first(store, e, net, t, force_auth) ==
    LET d == authenticate_with_device_code(store, e, net.device1, t)
    IN IF d.raised \/ d.result = Null
       THEN [store |-> d.store, raised |-> d.raised, row |-> Null,
             elapsed |-> d.elapsed, result |-> "None",
             trace |-> <<"load", DeviceStep(d)>>]
       ELSE refresh_then_build(d.store, d.result, e, net, t, d.elapsed,
                               <<"load", DeviceStep(d)>>)

\* force_auth: the parameter of line 426; no line of the body reads it
get_authenticated_youtube_service(store, e, net, t, force_auth) ==
    LET row == load_credential(store)
    IN IF row = Null
       THEN LET d == authenticate_with_device_code(store, e, net.device1, t)
            IN IF d.raised \/ d.result = Null
               THEN [store |-> d.store, raised |-> d.raised, row |-> Null,
                     elapsed |-> d.elapsed, result |-> "None",
                     trace |-> <<"load", DeviceStep(d)>>]
               ELSE refresh_then_build(d.store, d.result, e, net, t, d.elapsed,
                                       <<"load", DeviceStep(d)>>)
       ELSE refresh_then_build(store, row, e, net, t, 0, <<"load">>)

\* ------------------------------------------------ oauth: the provider side

AccessTokens == {"at1", "at2"}

\* expires_in of a token response: absent, inside the refresh margin, beyond it
Lifetimes == {{}, {REFRESH_MARGIN_SECONDS}, {REFRESH_MARGIN_SECONDS + 2}}

RefreshNets ==
    {[ok |-> FALSE]} \cup
    [ok : {TRUE}, access_token : AccessTokens, refresh_token : {"None", "rt2"},
     expires_in : Lifetimes]

Responses == {"authorization_pending", "slow_down", "access_denied",
              "expired_token", "transport_error", "success"}

RECURSIVE SeqsUpTo(_, _)
SeqsUpTo(S, n) ==
    IF n = 0 THEN {<< >>}
    ELSE LET shorter == SeqsUpTo(S, n - 1)
         IN shorter \cup {Append(q, x) : q \in shorter, x \in S}

LongDeviceExpiry == 8   \* a device code that outlives a slowed-down poll

\* every behaviour of the provider during one device grant
DeviceNets ==
    [fetch_ok : BOOLEAN, interval : {1},
     expires_in : (1..MaxDeviceExpiry) \cup {LongDeviceExpiry},
     polls : SeqsUpTo(Responses, MaxPolls), access_token : AccessTokens,
     refresh_token : {"None", "", "rt1"}, expires_in_secs : Lifetimes,
     profile_ok : BOOLEAN]

\* the device grants offered to get_authenticated_youtube_service: the fetch
\* fails; the user authorises at once or after one pending answer; denies;
\* never answers; the transport breaks
QuickNet == [fetch_ok |-> TRUE, interval |-> 1, expires_in |-> MaxDeviceExpiry,
             polls |-> <<"success">>, access_token |-> "at1",
             refresh_token |-> "rt1", expires_in_secs |-> {},
             profile_ok |-> TRUE]

ServiceDeviceNets ==
    {[QuickNet EXCEPT !.fetch_ok = FALSE]} \cup
    {[QuickNet EXCEPT !.polls = p] :
        p \in {<<"access_denied">>, << >>, <<"transport_error">>,
               <<"authorization_pending", "success">>}} \cup
    {[QuickNet EXCEPT !.refresh_token = rt, !.expires_in_secs = life,
                      !.profile_ok = ok] :
        rt \in {"None", "rt1"}, life \in Lifetimes, ok \in BOOLEAN} \cup
    {[QuickNet EXCEPT !.refresh_token = ""]}

\* The parts of net a call never consulted are fixed, so that two calls that
\* differ only in an answer nobody asked for are one call.
Member(x, q) == \E i \in 1..Len(q) : q[i] = x
Count(x, q) == Cardinality({i \in 1..Len(q) : q[i] = x})

NoClient(e) == FalsyStr(e.client_id) \/ FalsyStr(e.client_secret)

\* the answers a call on this store can consult
ServiceNets(store, e) ==
    UNION {{[device1 |-> d1, refresh |-> rf, device2 |-> d2, build_ok |-> b] :
               d1 \in IF store = {} /\ ~NoClient(e) THEN ServiceDeviceNets
                      ELSE {QuickNet},
               d2 \in IF NoClient(e) \/ rf.ok THEN {QuickNet}
                      ELSE ServiceDeviceNets,
               b \in BOOLEAN} : rf \in RefreshNets}

ConsultedOnly(net, trace) ==
    /\ ~Member("refresh:None", trace) => net.device2 = QuickNet
    /\ (\A x \in RefreshSteps : ~Member(x, trace)) => net.refresh = [ok |-> FALSE]
    /\ (\A x \in BuildSteps : ~Member(x, trace)) => net.build_ok

Environments == {[client_id |-> "cid", client_secret |-> "sec"],
                 [client_id |-> "None", client_secret |-> "sec"]}

\* ------------------------------------------------------ the initial stores

NoCall == [op |-> "none"]

PollingIdle ==
    /\ policy = Null
    /\ usages = << >>
    /\ channels = {}
    /\ videos = {}
    /\ pc = "idle"
    /\ loc = Null
    /\ executed = << >>
    /\ events = << >>
    /\ cycles = 0
    /\ hostOffset = 0

pollVars == <<policy, usages, channels, videos, pc, loc, executed, events,
              cycles, hostOffset>>

\* ------------------------------------- SpecAuth: the OAuth operations

InitAuth ==
    /\ now = 0
    /\ env \in Environments
    /\ creds = {}
    /\ call = NoCall
    /\ PollingIdle

AuthTick ==
    /\ now < MaxNow
    /\ now' = now + 1
    /\ UNCHANGED <<env, creds, call, pollVars>>

CallGetService ==
    \E net \in ServiceNets(creds, env) :
      \E force_auth \in BOOLEAN :
        LET r == get_authenticated_youtube_service(creds, env, net, now,
                                                   force_auth)
        IN /\ ConsultedOnly(net, r.trace)
           /\ now + r.elapsed <= MaxNow
           /\ now' = now + r.elapsed
           /\ creds' = r.store
           /\ call' = [op |-> "get_service", pre |-> creds, t |-> now,
                       force_auth |-> force_auth, net |-> net,
                       result |-> r.result, row |-> r.row,
                       raised |-> r.raised, trace |-> r.trace]
           /\ UNCHANGED <<env, pollVars>>

CallRefresh ==
    \E row \in creds, net \in RefreshNets :
        LET r == refresh_credential(creds, row, net, now)
        IN /\ creds' = r.store
           /\ call' = [op |-> "refresh", pre |-> creds, t |-> now, arg |-> row,
                       net |-> net, result |-> r.result,
                       exchanges |-> r.exchanges, trace |-> r.trace]
           /\ UNCHANGED <<now, env, pollVars>>

NextAuth == AuthTick \/ CallGetService \/ CallRefresh

SpecAuth == InitAuth /\ [][NextAuth]_vars

\* --------------- SpecReset: next_daily_reset_utc and current_reset_window_utc

\* Instants are minutes of UTC counted from 00:00 UTC of a day 0; wall
\* readings are minutes counted from 00:00 of day 0 on the zone's clock.
MinutesPerDay == 24 * 60

\* ZoneInfo("America/Los_Angeles") around the end of daylight time: UTC-7
\* until 09:00 UTC of day 1, when the clock reading 02:00 is set back to
\* 01:00, and UTC-8 from then on
PdtOffset == 0 - 7 * 60
PstOffset == 0 - 8 * 60
FallBackUtc == MinutesPerDay + 9 * 60

\* now_utc.astimezone(local_tz): the wall reading of an instant
ToLocal(u) == u + (IF u < FallBackUtc THEN PdtOffset ELSE PstOffset)

\* dt.astimezone(timezone.utc) of a wall reading with fold = 0: a reading
\* the clock shows twice stands for its first occurrence
ToUtc(w) ==
    w - (IF w < FallBackUtc + PdtOffset THEN PdtOffset ELSE PstOffset)

\* lines 23-42; datetimes of one tzinfo compare and add by wall reading
next_daily_reset_utc(reset_hour, reset_minute, now_utc) ==
    LET now_local == ToLocal(now_utc)
        midnight == (now_local \div MinutesPerDay) * MinutesPerDay
        candidate_local == midnight + reset_hour * 60 + reset_minute
    IN IF candidate_local <= now_local
       THEN ToUtc(candidate_local + MinutesPerDay)
       ELSE ToUtc(candidate_local)

\* lines 55-57: the subtraction is made on the UTC datetime
current_reset_window_utc(reset_hour, reset_minute, now_utc) ==
    LET next_reset == next_daily_reset_utc(reset_hour, reset_minute, now_utc)
        prev_reset == next_reset - MinutesPerDay
    IN <<prev_reset, next_reset>>

ResetGrain == 30        \* instants and reset times are multiples of it
MaxResetSlots == 143    \* now_utc is one of the first slots of ResetGrain
                        \* minutes, three days in all, after 08:00 UTC of day 0

ResetInstants == {8 * 60 + k * ResetGrain : k \in 0..MaxResetSlots}
ResetHours == {0, 1, 2, 12, 23}
ResetMinutes == {0, ResetGrain}

InitReset ==
    /\ now \in ResetInstants
    /\ env \in {[client_id |-> "cid", client_secret |-> "sec"]}
    /\ creds = {}
    /\ call = NoCall
    /\ PollingIdle

CallResetWindow ==
    /\ call = NoCall
    /\ \E reset_hour \in ResetHours, reset_minute \in ResetMinutes :
          call' = [op |-> "reset_window", reset_hour |-> reset_hour,
                   reset_minute |-> reset_minute, now_utc |-> now,
                   next |-> next_daily_reset_utc(reset_hour, reset_minute, now),
                   window |-> current_reset_window_utc(reset_hour,
                                                       reset_minute, now)]
    /\ UNCHANGED <<now, env, creds, pollVars>>

NextReset == CallResetWindow

SpecReset == InitReset /\ [][NextReset]_vars

\* ------------------------------------------- SpecExpiry: _is_expired alone

MaxSlack == 2   \* expiry readings lie within MaxSlack seconds of now + margin

MarginInputs == {0, 1, REFRESH_MARGIN_SECONDS}

UtcOffsets == {0 - 3600, 0, 3600}

\* None, and naive and aware datetimes whose reading or whose instant is near
\* now + margin
ExpiryInputs(t, margin) ==
    {Null} \cup
    {Naive(t + margin + d) : d \in (0 - MaxSlack)..MaxSlack} \cup
    UNION {{Aware(t + margin + d, off), Aware(t + margin + d + off, off)} :
              d \in (0 - MaxSlack)..MaxSlack, off \in UtcOffsets}

InitExpiry ==
    /\ now \in 0..MaxNow
    /\ env \in Environments
    /\ creds = {}
    /\ call = NoCall
    /\ PollingIdle

CallIsExpired ==
    \E margin \in MarginInputs :
        \E expiry \in ExpiryInputs(now, margin) :
            /\ call' = [op |-> "is_expired", expiry |-> expiry, t |-> now,
                        margin |-> margin,
                        result |-> is_expired(expiry, now, margin)]
            /\ UNCHANGED <<now, env, creds, pollVars>>

NextExpiry == CallIsExpired

SpecExpiry == InitExpiry /\ [][NextExpiry]_vars

\* --------------------- SpecDevice: authenticate_with_device_code alone

\* a credential left by an earlier grant
StoredCredential ==
    [id |-> 1, access_token |-> "at0", refresh_token |-> "rt0",
     expiry |-> Null, client_id |-> "cid", client_secret |-> "sec",
     user_id |-> "uid0", user_email |-> "u0@e"]

\* os.getenv: both set, the id unset, the secret empty
DeviceEnvironments ==
    Environments \cup {[client_id |-> "cid", client_secret |-> ""]}

\* The answers a grant never asked for are fixed, and a script of poll answers
\* is no longer than the polls made and does not end in the answer an
\* exhausted script gives anyway.
ConsultedByGrant(dev, r) ==
    /\ Len(dev.polls) <= Len(r.waits)
    /\ dev.polls # << >> => dev.polls[Len(dev.polls)] # "authorization_pending"
    /\ r.outcome \in {"no_client", "fetch_failed"} =>
          dev.expires_in = MaxDeviceExpiry
    /\ r.outcome = "no_client" => dev.fetch_ok
    /\ r.outcome # "success" =>
          /\ dev.access_token = QuickNet.access_token
          /\ dev.refresh_token = QuickNet.refresh_token
          /\ dev.expires_in_secs = QuickNet.expires_in_secs
          /\ dev.profile_ok = QuickNet.profile_ok

InitDevice ==
    /\ now \in 0..MaxNow
    /\ env \in DeviceEnvironments
    /\ creds \in {{}, {StoredCredential}}
    /\ call = NoCall
    /\ PollingIdle

\* one grant on the store and at the time Init drew
CallDeviceAuth ==
    /\ call = NoCall
    /\ \E dev \in DeviceNets :
          LET r == authenticate_with_device_code(creds, env, dev, now)
          IN /\ ConsultedByGrant(dev, r)
             /\ now' = now + r.elapsed
             /\ creds' = r.store
             /\ call' = [op |-> "device_auth", pre |-> creds, t |-> now,
                         net |-> dev, result |-> r.result, raised |-> r.raised,
                         elapsed |-> r.elapsed, trace |-> r.trace,
                         waits |-> r.waits, outcome |-> r.outcome]
    /\ UNCHANGED <<env, pollVars>>

NextDevice == CallDeviceAuth

SpecDevice == InitDevice /\ [][NextDevice]_vars

\* ----------------------------- SpecRevoke: revoke_expired_tokens alone

CredentialIds == {1, 2}

\* a stored row: with or without access and refresh token; expiry unset,
\* inside the refresh margin at time 0, or one second beyond it
StoredRows(id) ==
    {[StoredCredential EXCEPT !.id = id, !.access_token = at,
                              !.refresh_token = rt, !.expiry = ex] :
        at \in {"None", "at0"}, rt \in {"None", "", "rt0"},
        ex \in {Null, Naive(REFRESH_MARGIN_SECONDS),
                Naive(REFRESH_MARGIN_SECONDS + 1)}}

StoredCredentials ==
    {{}} \cup UNION {{{r} : r \in StoredRows(id)} : id \in CredentialIds}
         \cup {{r1, r2} : r1 \in StoredRows(1), r2 \in StoredRows(2)}

RevokeRefreshNets ==
    {[ok |-> FALSE],
     [ok |-> TRUE, access_token |-> "at1", refresh_token |-> "None",
      expires_in |-> {REFRESH_MARGIN_SECONDS + 2}]}

RevokeNets == [CredentialIds -> [refresh : RevokeRefreshNets, revoke_ok : BOOLEAN]]

\* the answers for a row the call did not ask for are fixed
ConsultedByRevoke(nets, trace) ==
    \A id \in CredentialIds :
        /\ (~\E i \in 1..Len(trace) : trace[i] = [id |-> id, step |-> "refresh"])
              => nets[id].refresh = [ok |-> FALSE]
        /\ (~\E i \in 1..Len(trace) :
                 trace[i] = [id |-> id, step |-> "revoke_delete"])
              => nets[id].revoke_ok

InitRevoke ==
    /\ now = 0
    /\ env \in {[client_id |-> "cid", client_secret |-> "sec"]}
    /\ creds \in StoredCredentials
    /\ call = NoCall
    /\ PollingIdle

CallRevokeExpired ==
    \E nets \in RevokeNets :
        LET r == revoke_expired_tokens(creds, nets, now)
        IN /\ ConsultedByRevoke(nets, r.trace)
           /\ creds' = r.store
           /\ call' = [op |-> "revoke", pre |-> creds, t |-> now, net |-> nets,
                       raised |-> r.raised, trace |-> r.trace]
           /\ UNCHANGED <<now, env, pollVars>>

NextRevoke == AuthTick \/ CallRevokeExpired

SpecRevoke == InitRevoke /\ [][NextRevoke]_vars

\* ------ SpecStore: the three operations that write the credential table

\* the table before the first call: empty, or the one row an earlier grant left
InitStore ==
    /\ now = 0
    /\ env \in Environments
    /\ creds \in {st \in StoredCredentials :
                     Cardinality(st) <= 1 /\ \A r \in st : r.id = 1}
    /\ call = NoCall
    /\ PollingIdle

StoreGetService ==
    \E net \in ServiceNets(creds, env) :
      \E r \in {get_authenticated_youtube_service(creds, env, net, now, FALSE)} :
        /\ ConsultedOnly(net, r.trace)
        /\ now + r.elapsed <= MaxNow
        /\ now' = now + r.elapsed
        /\ creds' = r.store
        /\ call' = [op |-> "get_service", pre |-> creds, trace |-> r.trace]
        /\ UNCHANGED <<env, pollVars>>

StoreRefresh ==
    \E row \in creds, net \in RefreshNets :
      \E r \in {refresh_credential(creds, row, net, now)} :
        /\ creds' = r.store
        /\ call' = [op |-> "refresh", pre |-> creds, trace |-> r.trace]
        /\ UNCHANGED <<now, env, pollVars>>

StoreRevokeExpired ==
    \E nets \in RevokeNets :
      \E r \in {revoke_expired_tokens(creds, nets, now)} :
        /\ ConsultedByRevoke(nets, r.trace)
        /\ creds' = r.store
        /\ call' = [op |-> "revoke", pre |-> creds, trace |-> r.trace]
        /\ UNCHANGED <<now, env, pollVars>>

NextStore == AuthTick \/ StoreGetService \/ StoreRefresh \/ StoreRevokeExpired

SpecStore == InitStore /\ [][NextStore]_vars

\* ------------------------------------------------------ the quota ledger

YOUTUBE_DAILY_LIMIT == 10000

DaySeconds == 24 * 60 * 60

\* datetime.now(pytz.timezone("America/Los_Angeles")): the reading of the clock
\* in the reset timezone; datetime.now(): the host's naive local reading
ResetZoneNow(t) == t
HostLocalNow(t, off) == t + off

\* current_date.replace(hour=0, minute=0, second=0, microsecond=0) and
\* .replace(hour=23, minute=59, second=59, microsecond=999999), stored without
\* their tzinfo: the last second of the day stands for its last microsecond
WindowStart(t) == (ResetZoneNow(t) \div DaySeconds) * DaySeconds
WindowEnd(t) == WindowStart(t) + DaySeconds - 1

initialize_policy_always_new(pol) ==
    IF pol # Null THEN [id |-> pol.id + 1, limit |-> YOUTUBE_DAILY_LIMIT]
    ELSE [id |-> 1, limit |-> YOUTUBE_DAILY_LIMIT]

initialize_policy(pol) ==
    IF pol # Null THEN pol ELSE [id |-> 1, limit |-> YOUTUBE_DAILY_LIMIT]

initialize_usage_empty(pol, us, t) ==
    IF \E i \in 1..Len(us) : /\ us[i].window_start = WindowStart(t)
                              /\ us[i].window_end = WindowEnd(t)
    THEN [raised |-> FALSE, usages |-> us]
    ELSE IF pol = Null
    THEN [raised |-> TRUE, usages |-> us]
    ELSE [raised |-> FALSE,
          usages |-> Append(us, [config_id |-> pol.id,
                                 window_start |-> WindowStart(t),
                                 window_end |-> WindowEnd(t),
                                 usage_count |-> 0,
                                 quota_remaining |-> 0])]

initialize_usage_reset_earlier(pol, us, t) ==
    IF \E i \in 1..Len(us) : /\ us[i].window_start = WindowStart(t)
                              /\ us[i].window_end = WindowEnd(t)
    THEN [raised |-> FALSE, usages |-> us]
    ELSE IF pol = Null
    THEN [raised |-> TRUE, usages |-> us]
    ELSE [raised |-> FALSE,
          usages |-> Append([i \in 1..Len(us) |->
                                [us[i] EXCEPT !.usage_count = 0,
                                              !.quota_remaining = pol.limit]],
                            [config_id |-> pol.id,
                             window_start |-> WindowStart(t),
                             window_end |-> WindowEnd(t),
                             usage_count |-> 0,
                             quota_remaining |-> pol.limit])]

initialize_usage(pol, us, t) ==
    IF \E i \in 1..Len(us) : /\ us[i].window_start = WindowStart(t)
                              /\ us[i].window_end = WindowEnd(t)
    THEN [raised |-> FALSE, usages |-> us]
    ELSE IF pol = Null
    THEN [raised |-> TRUE, usages |-> us]
    ELSE [raised |-> FALSE,
          usages |-> Append(us, [config_id |-> pol.id,
                                 window_start |-> WindowStart(t),
                                 window_end |-> WindowEnd(t),
                                 usage_count |-> 0,
                                 quota_remaining |-> pol.limit])]

\* the rows the two quota functions select: 0 when there is none (the policy
\* row or the usage row is missing), else the row's index
CurrentUsage(pol, us, hostNow) ==
    IF pol = Null THEN 0
    ELSE LET found == {i \in 1..Len(us) : /\ us[i].window_start <= hostNow
                                          /\ us[i].window_end >= hostNow
                                          /\ us[i].config_id = pol.id}
         IN IF found = {} THEN 0 ELSE Min(found)

increment_quota_usage_off_by_one(pol, us, hostNow, units_used) ==
    LET i == CurrentUsage(pol, us, hostNow)
    IN IF i = 0 THEN [raised |-> TRUE, usages |-> us]
       ELSE IF us[i].quota_remaining <= units_used
       THEN [raised |-> TRUE, usages |-> us]
       ELSE [raised |-> FALSE,
             usages |-> [us EXCEPT ![i].usage_count = @ + units_used,
                                   ![i].quota_remaining = @ - units_used]]

increment_quota_usage_count_only(pol, us, hostNow, units_used) ==
    LET i == CurrentUsage(pol, us, hostNow)
    IN IF i = 0 THEN [raised |-> TRUE, usages |-> us]
       ELSE IF us[i].quota_remaining < units_used
       THEN [raised |-> TRUE, usages |-> us]
       ELSE [raised |-> FALSE,
             usages |-> [us EXCEPT ![i].usage_count = @ + units_used]]

increment_quota_usage(pol, us, hostNow, units_used) ==
    LET i == CurrentUsage(pol, us, hostNow)
    IN IF i = 0 THEN [raised |-> TRUE, usages |-> us]
       ELSE IF us[i].quota_remaining < units_used
       THEN [raised |-> TRUE, usages |-> us]
       ELSE [raised |-> FALSE,
             usages |-> [us EXCEPT ![i].usage_count = @ + units_used,
                                   ![i].quota_remaining = @ - units_used]]

check_available_quota_negative_only(pol, us, hostNow) ==
    LET i == CurrentUsage(pol, us, hostNow)
    IN IF i = 0 THEN [raised |-> TRUE, result |-> FALSE]
       ELSE [raised |-> FALSE, result |-> ~(us[i].quota_remaining < 0)]

check_available_quota_false_when_missing(pol, us, hostNow) ==
    LET i == CurrentUsage(pol, us, hostNow)
    IN IF i = 0 THEN [raised |-> FALSE, result |-> FALSE]
       ELSE [raised |-> FALSE, result |-> ~(us[i].quota_remaining <= 0)]

check_available_quota(pol, us, hostNow) ==
    LET i == CurrentUsage(pol, us, hostNow)
    IN IF i = 0 THEN [raised |-> TRUE, result |-> FALSE]
       ELSE [raised |-> FALSE, result |-> ~(us[i].quota_remaining <= 0)]

\* ------------------------------------------- the stores a run starts from

ChannelIds == {"UCa", "UCb"}

MaxRemaining == 2   \* a stored window has 0..MaxRemaining units left
MaxTicks == 2       \* the clock runs over MaxTicks steps of ClockStep
MaxUnits == 2       \* SpecLedger: an increment asks for 1..MaxUnits units
MaxCalls == 4       \* SpecLedger: increments made on top of the stored ledger

ClockStep == 12 * 60 * 60

\* the host keeps the reset timezone's time, or one 12 hours ahead of it
\* (UTC+4 against Pacific Standard Time)
HostOffsets == {0, 12 * 60 * 60}

\* The ledger of an earlier run: none, or the policy and today's window with
\* all but r units used.
StoredLedgers ==
    {[policy |-> Null, usages |-> << >>]} \cup
    {[policy |-> initialize_policy(Null),
      usages |-> <<[config_id |-> 1,
                    window_start |-> WindowStart(0),
                    window_end |-> WindowEnd(0),
                    usage_count |-> YOUTUBE_DAILY_LIMIT - r,
                    quota_remaining |-> r]>>] : r \in 0..MaxRemaining}

\* The channels of an earlier run: none yet, or one channel without videos
\* and one with a video.
StoredChannels == {{}, {[id |-> "UCa", num_videos |-> 0],
                        [id |-> "UCb", num_videos |-> 1]}}

\* the ids of the videos the provider lists in a channel's uploads playlist
VideoIds(channel_id) == IF channel_id = "UCa" THEN {"a1", "a2"} ELSE {"b1", "b2"}

\* The video rows of that run: get_recent_videos stored the latest video of
\* a channel it had flagged.
StoredVideos(chs) ==
    IF chs = {} THEN {} ELSE {[id |-> "b1", youtube_channel_id |-> "UCb"]}

Tick ==
    /\ now < MaxTicks * ClockStep
    /\ now' = now + ClockStep
    /\ UNCHANGED <<hostOffset, env, creds, call, policy, usages, channels,
                   videos, pc, loc, executed, events, cycles>>

\* ------------------------------- SpecLedger: the quota functions, called
\* in any order

InitLedger ==
    /\ now = 0
    /\ hostOffset \in HostOffsets
    /\ env \in Environments
    /\ creds = {}
    /\ call = NoCall
    /\ \E l \in StoredLedgers : policy = l.policy /\ usages = l.usages
    /\ channels = {}
    /\ videos = {}
    /\ pc = "idle"
    /\ loc = Null
    /\ executed = << >>
    /\ events = << >>
    /\ cycles = 0

ledgerFrame == <<now, hostOffset, env, creds, channels, videos, pc, loc,
                 executed, events>>

CallInitializePolicy ==
    /\ policy' = initialize_policy(policy)
    /\ call' = [op |-> "initialize_policy", prePolicy |-> policy, pre |-> usages]
    /\ UNCHANGED <<usages, cycles, ledgerFrame>>

CallInitializeUsage ==
    LET r == initialize_usage(policy, usages, now)
    IN /\ usages' = r.usages
       /\ call' = [op |-> "initialize_usage", prePolicy |-> policy,
                   pre |-> usages, t |-> now, raised |-> r.raised]
       /\ UNCHANGED <<policy, cycles, ledgerFrame>>

CallIncrement ==
    \E units \in 1..MaxUnits :
        LET hostNow == HostLocalNow(now, hostOffset)
            r == increment_quota_usage(policy, usages, hostNow, units)
        IN /\ cycles < MaxCalls
           /\ cycles' = cycles + 1
           /\ usages' = r.usages
           /\ call' = [op |-> "increment", prePolicy |-> policy, pre |-> usages,
                       units |-> units, raised |-> r.raised,
                       row |-> CurrentUsage(policy, usages, hostNow)]
           /\ UNCHANGED <<policy, ledgerFrame>>

CallCheckAvailable ==
    LET hostNow == HostLocalNow(now, hostOffset)
        r == check_available_quota(policy, usages, hostNow)
    IN /\ call' = [op |-> "check_available", prePolicy |-> policy,
                   pre |-> usages, raised |-> r.raised, result |-> r.result,
                   row |-> CurrentUsage(policy, usages, hostNow)]
       /\ UNCHANGED <<policy, usages, cycles, ledgerFrame>>

NextLedger ==
    \/ Tick
    \/ CallInitializePolicy
    \/ CallInitializeUsage
    \/ CallIncrement
    \/ CallCheckAvailable

SpecLedger == InitLedger /\ [][NextLedger]_vars

\* ---------------- SpecRace: __increment_quota_usage in two processes on
\* one database file.  Each process opens its own Session: the two selects
\* and the tests run on what the process read (the sqlite3 driver opens the
\* transaction at the first write), and the flush writes the values the
\* process computed from its own read, then commits.

Procs == {1, 2}

ProcIdle == [pc |-> "idle"]

InitRace ==
    /\ now = 0
    /\ hostOffset \in HostOffsets
    /\ env \in {[client_id |-> "cid", client_secret |-> "sec"]}
    /\ creds = {}
    /\ \E l \in StoredLedgers :
          /\ policy = l.policy
          /\ usages = l.usages
          /\ call = [op |-> "stored", pre |-> l.usages]
    /\ channels = {}
    /\ videos = {}
    /\ pc = "idle"
    /\ loc = [p \in Procs |-> ProcIdle]
    /\ executed = 0
    /\ events = << >>
    /\ cycles = 0

raceFrame == <<now, hostOffset, env, creds, call, policy, channels, videos, pc,
               events>>

\* lines 178-208: the selects and the three raises
RaceSelect(p) ==
    /\ loc[p].pc = "idle"
    /\ cycles < MaxCalls
    /\ cycles' = cycles + 1
    /\ \E units \in 1..MaxUnits :
          LET i == CurrentUsage(policy, usages, HostLocalNow(now, hostOffset))
          IN IF i = 0 \/ usages[i].quota_remaining < units
             THEN loc' = loc
             ELSE loc' = [loc EXCEPT ![p] = [pc |-> "loaded", row |-> i,
                                             units_used |-> units,
                                             usage |-> usages[i]]]
    /\ UNCHANGED <<usages, executed, raceFrame>>

\* lines 210-215: usage.usage_count += units_used, usage.quota_remaining -=
\* units_used on the loaded object, flush (UPDATE of both columns), commit
RaceCommit(p) ==
    /\ loc[p].pc = "loaded"
    /\ usages' = [usages EXCEPT
                    ![loc[p].row].usage_count =
                        loc[p].usage.usage_count + loc[p].units_used,
                    ![loc[p].row].quota_remaining =
                        loc[p].usage.quota_remaining - loc[p].units_used]
    /\ executed' = executed + loc[p].units_used
    /\ loc' = [loc EXCEPT ![p] = ProcIdle]
    /\ UNCHANGED <<cycles, raceFrame>>

NextRace == \E p \in Procs : RaceSelect(p) \/ RaceCommit(p)

SpecRace == InitRace /\ [][NextRace]_vars

\* ------------------------------------------------ the channel diff

\* c["snippet"]["resourceId"]["channelId"] and int(c["contentDetails"]
\* ["totalItemCount"]) of one item of the listing
Item(id, n) == [channelId |-> id, totalItemCount |-> n]

StoredChannel(chs, id) ==
    IF \E r \in chs : r.id = id THEN CHOOSE r \in chs : r.id = id ELSE Null

RECURSIVE subs_loop_flag_any_increase(_, _, _, _)
subs_loop_flag_any_increase(chs, response, i, recently) ==
    IF i > Len(response) THEN [channels |-> chs, recently |-> recently]
    ELSE LET c == response[i]
             channel == StoredChannel(chs, c.channelId)
         IN IF channel = Null
            THEN subs_loop_flag_any_increase(chs \cup {[id |-> c.channelId,
                                      num_videos |-> c.totalItemCount]},
                           response, i + 1, recently)
            ELSE subs_loop_flag_any_increase((chs \ {channel}) \cup
                               {[id |-> c.channelId,
                                 num_videos |-> c.totalItemCount]},
                           response, i + 1,
                           IF c.totalItemCount > channel.num_videos
                           THEN Append(recently, c.channelId) ELSE recently)

RECURSIVE subs_loop_keep_higher_count(_, _, _, _)
subs_loop_keep_higher_count(chs, response, i, recently) ==
    IF i > Len(response) THEN [channels |-> chs, recently |-> recently]
    ELSE LET c == response[i]
             channel == StoredChannel(chs, c.channelId)
         IN IF channel = Null
            THEN subs_loop_keep_higher_count(chs \cup {[id |-> c.channelId,
                                      num_videos |-> c.totalItemCount]},
                           response, i + 1, recently)
            ELSE subs_loop_keep_higher_count((chs \ {channel}) \cup
                               {[id |-> c.channelId,
                                 num_videos |-> IF c.totalItemCount < channel.num_videos
                                               THEN channel.num_videos
                                               ELSE c.totalItemCount]},
                           response, i + 1,
                           IF c.totalItemCount = channel.num_videos + 1
                           THEN Append(recently, c.channelId) ELSE recently)

\* the for loop of __youtube_subs_response_to_channels from item i on
RECURSIVE subs_loop(_, _, _, _)
subs_loop(chs, response, i, recently) ==
    IF i > Len(response) THEN [channels |-> chs, recently |-> recently]
    ELSE LET c == response[i]
             channel == StoredChannel(chs, c.channelId)
         IN IF channel = Null
            THEN subs_loop(chs \cup {[id |-> c.channelId,
                                      num_videos |-> c.totalItemCount]},
                           response, i + 1, recently)
            ELSE subs_loop((chs \ {channel}) \cup
                               {[id |-> c.channelId,
                                 num_videos |-> c.totalItemCount]},
                           response, i + 1,
                           IF c.totalItemCount = channel.num_videos + 1
                           THEN Append(recently, c.channelId) ELSE recently)

youtube_subs_response_to_channels(chs, response) ==
    LET r == subs_loop(chs, response, 1, << >>)
        current_channel_ids == {response[i].channelId : i \in 1..Len(response)}
    IN [channels |-> {ch \in r.channels : ch.id \in current_channel_ids},
        recently_uploaded_channels |-> r.recently]

\* ------------------------------------------- calculate_interval_between_cycles

CeilDiv(a, b) == (a + b - 1) \div b

calculate_interval_between_cycles_floor(chs) ==
    LET num_channels == Cardinality(chs)
        total_requests_allowed_per_day == 10000
        requests_per_cycle == CeilDiv(num_channels + 1, 50)
        num_cycles_per_day == total_requests_allowed_per_day \div requests_per_cycle
        seconds_per_day == 24 * 60 * 60
    IN seconds_per_day \div num_cycles_per_day

calculate_interval_between_cycles_round(chs) ==
    LET num_channels == Cardinality(chs)
        total_requests_allowed_per_day == 10000
        requests_per_cycle == CeilDiv(num_channels + 1, 50)
        num_cycles_per_day == total_requests_allowed_per_day \div requests_per_cycle
        seconds_per_day == 24 * 60 * 60
    IN (2 * seconds_per_day + num_cycles_per_day) \div (2 * num_cycles_per_day)

\* math.ceil of the two true divisions: the quotients are exact or far from
\* an integer in floating point, so the integer ceiling is what it returns
calculate_interval_between_cycles(chs) ==
    LET num_channels == Cardinality(chs)
        total_requests_allowed_per_day == 10000
        requests_per_cycle == CeilDiv(num_channels + 1, 50)
        num_cycles_per_day == total_requests_allowed_per_day \div requests_per_cycle
        seconds_per_day == 24 * 60 * 60
    IN CeilDiv(seconds_per_day, num_cycles_per_day)

\* ----------------- SpecInterval: calculate_interval_between_cycles alone

MaxChannels == 60   \* stored channel counts 0..MaxChannels, and those below

ChannelCounts == (0..MaxChannels) \cup {99, 100, 149, 150, 500, 2499, 5000, 9999}

\* a youtube_channel table of n rows
ChannelTable(n) == {[id |-> i, num_videos |-> 0] : i \in 1..n}

InitInterval ==
    /\ now = 0
    /\ hostOffset = 0
    /\ env \in {[client_id |-> "cid", client_secret |-> "sec"]}
    /\ creds = {}
    /\ call = NoCall
    /\ policy = Null
    /\ usages = << >>
    /\ channels \in {ChannelTable(n) : n \in ChannelCounts}
    /\ videos = {}
    /\ pc = "idle"
    /\ loc = Null
    /\ executed = << >>
    /\ events = << >>
    /\ cycles = 0

CallCalculateInterval ==
    /\ call' = [op |-> "calculate_interval",
                result |-> calculate_interval_between_cycles(channels)]
    /\ UNCHANGED <<now, hostOffset, env, creds, policy, usages, channels,
                   videos, pc, loc, executed, events, cycles>>

NextInterval == CallCalculateInterval

SpecInterval == InitInterval /\ [][NextInterval]_vars

\* --------------------------------------------------- the provider's answers

MaxCount == 2    \* a channel's totalItemCount is in 0..MaxCount
MaxPages == 2    \* a subscription listing comes in 1..MaxPages pages
MaxCycles == 1   \* iterations of main()'s loop

\* a listing: some of the channels, in id order, each with a count
ListingsOf(ids) ==
    IF ids = {} THEN {<< >>}
    ELSE IF Cardinality(ids) = 1
    THEN {<<Item(id, n)>> : id \in ids, n \in 0..MaxCount}
    ELSE {<<Item("UCa", n), Item("UCb", m)>> : n \in 0..MaxCount, m \in 0..MaxCount}

Listings == UNION {ListingsOf(ids) : ids \in SUBSET ChannelIds}

\* response["items"][0] of a playlistItems().list() for a channel's uploads,
\* answered at t: privacy status, video, and a publish time that is the
\* moment of the request or a day before it
PlaylistItems(channel_id, t) ==
    [privacyStatus : {"public", "private"}, videoId : VideoIds(channel_id),
     videoPublishedAt : {t, t - DaySeconds}]

\* get_recent_videos lines 88-92: delete the channel's rows, add the video
store_video_append(vids, video) == vids \cup {video}

store_video(vids, video) ==
    {v \in vids : v.youtube_channel_id # video.youtube_channel_id} \cup {video}

\* get_recent_videos lines 60-99, for one playlist's answer: what it leaves
\* in the youtube_video table and in the list it returns.  Of the stored row
\* the table keeps the two columns the polling path selects on, the key and
\* the channel.
recent_video_store_private(vids, found, channel_id, body) ==
    LET video == [id |-> body.videoId,
                  uploaded_at |-> body.videoPublishedAt,
                  youtube_channel_id |-> channel_id]
        row == [id |-> body.videoId, youtube_channel_id |-> channel_id]
    IN IF body.privacyStatus # "public"
       THEN [videos |-> store_video(vids, row), found |-> found]
       ELSE [videos |-> store_video(vids, row), found |-> Append(found, video)]

recent_video(vids, found, channel_id, body) ==
    LET video == [id |-> body.videoId,
                  uploaded_at |-> body.videoPublishedAt,
                  youtube_channel_id |-> channel_id]
        row == [id |-> body.videoId, youtube_channel_id |-> channel_id]
    IN IF body.privacyStatus # "public"
       THEN [videos |-> vids, found |-> found]
       ELSE [videos |-> store_video(vids, row), found |-> Append(found, video)]

\* the device grants main()'s calls of get_authenticated_youtube_service meet:
\* tokens that carry no expiry, so that the stored credential never expires
PollingServiceNets(store, e) ==
    {[device1 |-> d1, refresh |-> [ok |-> FALSE], device2 |-> QuickNet,
      build_ok |-> b] :
        d1 \in IF store = {} /\ ~NoClient(e)
               THEN {QuickNet, [QuickNet EXCEPT !.fetch_ok = FALSE],
                     [QuickNet EXCEPT !.polls = <<"transport_error">>]}
               ELSE {QuickNet},
        b \in BOOLEAN}

\* ------------------------------------------- SpecHealth: healthcheck alone

MaxRuns == 3   \* runs of `main.py healthcheck` on one store

\* what request.execute() of channels().list() does: it raises, or answers
\* with or without "items" (a list of 0 or 1 channels) and with or without
\* pageInfo.totalResults (0 or 1); {} stands for an absent key
HealthResponses ==
    [ok : BOOLEAN, items : {{}, {0}, {1}}, totalResults : {{}, {0}, {1}}]

GoodResponse == [ok |-> TRUE, items |-> {1}, totalResults |-> {1}]

\* exit code of the lines 12-20, given a service
healthcheck_lookup_ignore_total(response) ==
    IF ~response.ok THEN 1
    ELSE IF response.items = {} THEN 1
    ELSE IF Max(response.items) = 0 THEN 1
    ELSE 0

healthcheck_lookup(response) ==
    IF ~response.ok THEN 1                              \* execute() raised
    ELSE IF response.items = {} THEN 1                  \* "items" not in response
    ELSE IF Max(response.items) = 0 THEN 1              \* len(items) == 0
    ELSE IF response.totalResults = {} THEN 1           \* KeyError
    ELSE IF Max(response.totalResults) < 1 THEN 1
    ELSE 0

\* SystemExit is no Exception: exit(0) leaves the try block uncaught, every
\* Exception ends in exit(1)
healthcheck_exit(s, response) ==
    LET youtube == IF s.raised THEN "raised" ELSE s.result
    IN [store |-> s.store, trace |-> s.trace, youtube |-> youtube,
        executed |-> youtube = "service",
        code |-> IF youtube # "service" THEN 1 ELSE healthcheck_lookup(response)]

healthcheck(store, e, net, t, response) ==
    CHOOSE r \in {healthcheck_exit(s, response) :
                     s \in {get_authenticated_youtube_service(store, e, net, t,
                                                              FALSE)}} : TRUE

InitHealth ==
    /\ now = 0
    /\ env \in Environments
    /\ creds \in {{}, {StoredCredential}}
    /\ call = NoCall
    /\ PollingIdle

\* one run of `main.py healthcheck` on the store the earlier runs left
CallHealthcheck ==
    \E net \in PollingServiceNets(creds, env) : \E response \in HealthResponses :
        \E r \in {healthcheck(creds, env, net, now, response)} :
           /\ ConsultedOnly(net, r.trace)
           /\ ~r.executed => response = GoodResponse
           /\ (r.executed /\ ~response.ok) =>
                 response = [GoodResponse EXCEPT !.ok = FALSE]
           /\ cycles < MaxRuns
           /\ cycles' = cycles + 1
           /\ creds' = r.store
           /\ call' = [op |-> "healthcheck", pre |-> creds, net |-> net,
                       response |-> response, youtube |-> r.youtube,
                       executed |-> r.executed, code |-> r.code]
           /\ UNCHANGED <<now, env, policy, usages, channels, videos, pc, loc,
                          executed, events, hostOffset>>

NextHealth == CallHealthcheck

SpecHealth == InitHealth /\ [][NextHealth]_vars

\* ----------------------------------------------------- Spec: main()

Days == 0..((MaxTicks * ClockStep) \div DaySeconds)

LocInit == [youtube |-> "None", pagesLeft |-> 0, response |-> << >>,
            subs |-> "pending", recently |-> << >>, queue |-> << >>,
            item |-> Null, found |-> << >>, vids |-> "pending",
            interval |-> 0, entry |-> Null]

Init ==
    /\ now = 0
    /\ hostOffset \in HostOffsets
    /\ env \in Environments
    /\ creds = {}
    /\ call = NoCall
    /\ \E l \in StoredLedgers :
          /\ policy = l.policy
          /\ usages = l.usages
          /\ executed = [d \in Days |->
                            IF d = 0 /\ l.usages # << >>
                            THEN l.usages[1].usage_count ELSE 0]
    /\ channels \in StoredChannels
    /\ videos = StoredVideos(channels)
    /\ pc = "start"
    /\ loc = LocInit
    /\ events = << >>
    /\ cycles = 0

Today == ResetZoneNow(now) \div DaySeconds

HostNow == HostLocalNow(now, hostOffset)

\* what the current window's row holds: 0 when no row is current
Remaining ==
    LET i == CurrentUsage(policy, usages, HostNow)
    IN IF i = 0 THEN 0 ELSE usages[i].quota_remaining

Snapshot == [usages |-> usages, channels |-> channels, videos |-> videos,
             row |-> CurrentUsage(policy, usages, HostNow),
             remaining |-> Remaining]

dbVars == <<policy, usages, channels, videos>>

\* main.py line 24: the result is dropped
MainStart ==
    /\ pc = "start"
    /\ \E net \in PollingServiceNets(creds, env) :
          LET r == get_authenticated_youtube_service(creds, env, net, now,
                                                     FALSE)
          IN /\ ConsultedOnly(net, r.trace)
             /\ creds' = r.store
             /\ pc' = IF r.raised THEN "crashed" ELSE "initialize_policy"
    /\ UNCHANGED <<now, hostOffset, env, call, dbVars, loc, executed, events,
                   cycles>>

\* main.py line 26
MainInitializePolicy ==
    /\ pc = "initialize_policy"
    /\ policy' = initialize_policy(policy)
    /\ pc' = "loop"
    /\ UNCHANGED <<now, hostOffset, env, creds, call, usages, channels, videos,
                   loc, executed, events, cycles>>

\* main.py line 29
LoopInitializeUsage ==
    /\ pc = "loop"
    /\ cycles < MaxCycles
    /\ cycles' = cycles + 1
    /\ LET r == initialize_usage(policy, usages, now)
       IN /\ usages' = r.usages
          /\ pc' = IF r.raised THEN "crashed" ELSE "get_service"
    /\ loc' = LocInit
    /\ events' = << >>
    /\ UNCHANGED <<now, hostOffset, env, creds, call, policy, channels, videos,
                   executed>>

\* main.py lines 30-31 and 40-42
LoopGetService ==
    /\ pc = "get_service"
    /\ \E net \in PollingServiceNets(creds, env) :
          LET r == get_authenticated_youtube_service(creds, env, net, now,
                                                     FALSE)
          IN /\ ConsultedOnly(net, r.trace)
             /\ creds' = r.store
             /\ loc' = [loc EXCEPT !.youtube = r.result]
             /\ pc' = IF r.raised THEN "crashed"
                      ELSE IF r.result = "service" THEN "pull_check"
                      ELSE "exited"
    /\ UNCHANGED <<now, hostOffset, env, call, dbVars, executed, events, cycles>>

\* pull_my_subscriptions, lines 15-19
PullCheck ==
    /\ pc = "pull_check"
    /\ LET r == check_available_quota(policy, usages, HostNow)
       IN /\ events' = <<[kind |-> "check", op |-> "pull_my_subscriptions",
                          raised |-> r.raised, result |-> r.result]>>
          /\ loc' = [loc EXCEPT !.entry = Snapshot,
                                !.subs = IF ~r.raised /\ ~r.result
                                         THEN "skipped" ELSE "pending"]
          /\ pc' = IF r.raised THEN "crashed"
                   ELSE IF r.result THEN "pull_execute" ELSE "interval"
    /\ UNCHANGED <<now, hostOffset, env, creds, call, dbVars, executed, cycles>>

ExecuteEvent == [kind |-> "execute",
                 row |-> CurrentUsage(policy, usages, HostNow),
                 remaining |-> Remaining]

\* __make_request: request.execute(), lines 160 and 170.  The first answer
\* settles how many pages the listing has; the items, which nothing reads
\* before the diff, are drawn there.
PullExecute ==
    /\ pc = "pull_execute"
    /\ IF loc.pagesLeft = 0
       THEN \E pages \in 1..MaxPages : loc' = [loc EXCEPT !.pagesLeft = pages - 1]
       ELSE loc' = [loc EXCEPT !.pagesLeft = @ - 1]
    /\ executed' = [executed EXCEPT ![Today] = @ + 1]
    /\ events' = Append(events, ExecuteEvent)
    /\ pc' = "pull_increment"
    /\ UNCHANGED <<now, hostOffset, env, creds, call, dbVars, cycles>>

\* __make_request: __increment_quota_usage(units_used), lines 161 and 171, and
\* the test of nextPageToken, line 164
PullIncrement ==
    /\ pc = "pull_increment"
    /\ LET r == increment_quota_usage(policy, usages, HostNow, 1)
       IN /\ usages' = r.usages
          /\ events' = Append(events, [kind |-> "increment", raised |-> r.raised,
                                       row |-> CurrentUsage(policy, usages,
                                                            HostNow)])
          /\ pc' = IF r.raised THEN "crashed"
                   ELSE IF loc.pagesLeft > 0 THEN "pull_execute"
                   ELSE "pull_diff"
    /\ UNCHANGED <<now, hostOffset, env, creds, call, policy, channels, videos,
                   loc, executed, cycles>>

\* pull_my_subscriptions, lines 29-31
PullDiff ==
    /\ pc = "pull_diff"
    /\ \E response \in Listings :
          LET r == youtube_subs_response_to_channels(channels, response)
          IN /\ channels' = r.channels
             /\ loc' = [loc EXCEPT !.subs = "done", !.response = response,
                                   !.recently = r.recently_uploaded_channels]
    /\ pc' = "interval"
    /\ UNCHANGED <<now, hostOffset, env, creds, call, policy, usages, videos,
                   executed, events, cycles>>

\* main.py lines 33-34; the listing is kept until main has the sweep's result
CalculateInterval ==
    /\ pc = "interval"
    /\ loc' = [loc EXCEPT !.interval = calculate_interval_between_cycles(channels),
                          !.response = << >>]
    /\ pc' = IF loc.recently # << >> THEN "videos_check" ELSE "sleep"
    /\ UNCHANGED <<now, hostOffset, env, creds, call, dbVars, executed, events,
                   cycles>>

\* get_recent_videos, lines 37-45
VideosCheck ==
    /\ pc = "videos_check"
    /\ LET r == check_available_quota(policy, usages, HostNow)
       IN /\ events' = <<[kind |-> "check", op |-> "get_recent_videos",
                          raised |-> r.raised, result |-> r.result]>>
          /\ loc' = [loc EXCEPT !.entry = Snapshot,
                                !.queue = loc.recently,
                                !.vids = IF ~r.raised /\ ~r.result
                                         THEN "skipped" ELSE "pending"]
          /\ pc' = IF r.raised THEN "crashed"
                   ELSE IF r.result THEN "videos_execute" ELSE "notify"
    /\ UNCHANGED <<now, hostOffset, env, creds, call, dbVars, executed, cycles>>

\* get_recent_videos, line 57; the answer is read after the increment
VideosExecute ==
    /\ pc = "videos_execute"
    /\ loc' = loc
    /\ executed' = [executed EXCEPT ![Today] = @ + 1]
    /\ events' = Append(events, ExecuteEvent)
    /\ pc' = "videos_increment"
    /\ UNCHANGED <<now, hostOffset, env, creds, call, dbVars, cycles>>

\* get_recent_videos, lines 58-99, for the channel at the head of the queue
VideosIncrement ==
    /\ pc = "videos_increment"
    /\ LET r == increment_quota_usage(policy, usages, HostNow, 1)
           channel_id == Head(loc.queue)
           rest == Tail(loc.queue)
       IN /\ usages' = r.usages
          /\ events' = Append(events, [kind |-> "increment", raised |-> r.raised,
                                       row |-> CurrentUsage(policy, usages,
                                                            HostNow)])
          /\ IF r.raised
             THEN /\ pc' = "crashed"
                  /\ UNCHANGED <<videos, loc>>
             ELSE /\ pc' = IF rest # << >> THEN "videos_execute" ELSE "notify"
                  /\ \E body \in PlaylistItems(channel_id, now) :
                        LET v == recent_video(videos, loc.found, channel_id,
                                              body)
                        IN /\ videos' = v.videos
                           /\ loc' = [loc EXCEPT
                                        !.queue = rest,
                                        !.item = [channel_id |-> channel_id,
                                                  body |-> body],
                                        !.found = v.found,
                                        !.vids = IF rest = << >> THEN "done"
                                                 ELSE @]
    /\ UNCHANGED <<now, hostOffset, env, creds, call, policy, channels, executed,
                   cycles>>

\* main.py line 36; get_recent_videos has returned, its last answer is gone
Notify ==
    /\ pc = "notify"
    /\ pc' = "sleep"
    /\ loc' = [loc EXCEPT !.item = Null]
    /\ UNCHANGED <<now, hostOffset, env, creds, call, dbVars, executed,
                   events, cycles>>

\* main.py lines 38-39
Sleep ==
    /\ pc = "sleep"
    /\ pc' = "loop"
    /\ UNCHANGED <<now, hostOffset, env, creds, call, dbVars, loc, executed,
                   events, cycles>>

\* the operator starts the program again on the same database
Restart ==
    /\ pc \in {"crashed", "exited"}
    /\ pc' = "start"
    /\ loc' = LocInit
    /\ events' = << >>
    /\ UNCHANGED <<now, hostOffset, env, creds, call, dbVars, executed, cycles>>

Next ==
    \/ Tick
    \/ MainStart
    \/ MainInitializePolicy
    \/ LoopInitializeUsage
    \/ LoopGetService
    \/ PullCheck
    \/ PullExecute
    \/ PullIncrement
    \/ PullDiff
    \/ CalculateInterval
    \/ VideosCheck
    \/ VideosExecute
    \/ VideosIncrement
    \/ Notify
    \/ Sleep
    \/ Restart

Spec == Init /\ [][Next]_vars

\* ------------------- SpecCycle: main() over several iterations, each callee
\* taken whole

MaxIterations == 3   \* iterations of main()'s loop in SpecCycle

\* __make_request lines 160-172: one execute and one increment per page
RECURSIVE make_request(_, _, _, _)
make_request(pol, us, hostNow, pages) ==
    IF pages = 0 THEN [raised |-> FALSE, usages |-> us]
    ELSE LET r == increment_quota_usage(pol, us, hostNow, 1)
         IN IF r.raised THEN [raised |-> TRUE, usages |-> us]
            ELSE make_request(pol, r.usages, hostNow, pages - 1)

\* pull_my_subscriptions; recently is << >> for None as for the empty list,
\* which main() tests alike
pull_my_subscriptions(pol, us, hostNow, chs, pages, response) ==
    LET c == check_available_quota(pol, us, hostNow)
    IN IF c.raised \/ ~c.result
       THEN [raised |-> c.raised, usages |-> us, channels |-> chs,
             recently |-> << >>]
       ELSE LET m == make_request(pol, us, hostNow, pages)
                d == youtube_subs_response_to_channels(chs, response)
            IN IF m.raised
               THEN [raised |-> TRUE, usages |-> m.usages, channels |-> chs,
                     recently |-> << >>]
               ELSE [raised |-> FALSE, usages |-> m.usages,
                     channels |-> d.channels,
                     recently |-> d.recently_uploaded_channels]

\* get_recent_videos lines 47-99: bodies[i] answers the lookup of queue[i]
RECURSIVE videos_loop(_, _, _, _, _, _, _)
videos_loop(pol, us, hostNow, vids, queue, bodies, found) ==
    IF queue = << >>
    THEN [raised |-> FALSE, usages |-> us, videos |-> vids, found |-> found]
    ELSE LET r == increment_quota_usage(pol, us, hostNow, 1)
             v == recent_video(vids, found, Head(queue), Head(bodies))
         IN IF r.raised
            THEN [raised |-> TRUE, usages |-> us, videos |-> vids,
                  found |-> found]
            ELSE videos_loop(pol, r.usages, hostNow, v.videos, Tail(queue),
                             Tail(bodies), v.found)

get_recent_videos(pol, us, hostNow, vids, flagged, bodies) ==
    LET c == check_available_quota(pol, us, hostNow)
    IN IF c.raised \/ ~c.result
       THEN [raised |-> c.raised, usages |-> us, videos |-> vids,
             found |-> << >>]
       ELSE videos_loop(pol, us, hostNow, vids, flagged, bodies, << >>)

\* subscription listings of n channels, the first with c videos
CycleListing(n, c) == [i \in 1..n |-> Item(i, IF i = 1 THEN c ELSE 0)]

CycleListings == {CycleListing(n, c) : n \in {0, 1, 50}, c \in {0, 1}}

CycleBodies(t) ==
    [privacyStatus : {"public", "private"}, videoId : {"v1", "v2"},
     videoPublishedAt : {t}]

CycleLocInit == [youtube |-> "None", recently |-> << >>, interval |-> 0,
                 found |-> << >>, sleeps |-> 0, slept |-> 0]

InitCycle ==
    /\ now = 0
    /\ hostOffset = 0
    /\ env \in Environments
    /\ creds = {}
    /\ call = NoCall
    /\ \E l \in StoredLedgers : policy = l.policy /\ usages = l.usages
    /\ channels \in {ChannelTable(0), ChannelTable(1)}
    /\ videos = {}
    /\ pc = "start"
    /\ loc = CycleLocInit
    /\ executed = 0
    /\ events = << >>
    /\ cycles = 0

\* main.py line 24; executed counts the calls of
\* get_authenticated_youtube_service, cycles the iterations begun
CycleStart ==
    /\ pc = "start"
    /\ \E net \in PollingServiceNets(creds, env) :
          LET r == get_authenticated_youtube_service(creds, env, net, now,
                                                     FALSE)
          IN /\ ConsultedOnly(net, r.trace)
             /\ creds' = r.store
             /\ pc' = IF r.raised THEN "crashed" ELSE "initialize_policy"
    /\ executed' = executed + 1
    /\ UNCHANGED <<now, hostOffset, env, call, dbVars, loc, events, cycles>>

\* main.py line 26
CycleInitializePolicy ==
    /\ pc = "initialize_policy"
    /\ policy' = initialize_policy(policy)
    /\ pc' = "loop"
    /\ UNCHANGED <<now, hostOffset, env, creds, call, usages, channels, videos,
                   loc, executed, events, cycles>>

\* main.py lines 28-29
CycleInitializeUsage ==
    /\ pc = "loop"
    /\ cycles < MaxIterations
    /\ cycles' = cycles + 1
    /\ LET r == initialize_usage(policy, usages, now)
       IN /\ usages' = r.usages
          /\ pc' = IF r.raised THEN "crashed" ELSE "get_service"
    /\ loc' = CycleLocInit
    /\ UNCHANGED <<now, hostOffset, env, creds, call, policy, channels, videos,
                   executed, events>>

\* main.py lines 30-31 and 40-42
CycleGetService ==
    /\ pc = "get_service"
    /\ \E net \in PollingServiceNets(creds, env) :
          LET r == get_authenticated_youtube_service(creds, env, net, now,
                                                     FALSE)
          IN /\ ConsultedOnly(net, r.trace)
             /\ creds' = r.store
             /\ loc' = [loc EXCEPT !.youtube = r.result]
             /\ pc' = IF r.raised THEN "crashed"
                      ELSE IF r.result = "service" THEN "pull"
                      ELSE "exited"
    /\ executed' = executed + 1
    /\ UNCHANGED <<now, hostOffset, env, call, dbVars, events, cycles>>

\* main.py line 32
CyclePull ==
    /\ pc = "pull"
    /\ \E pages \in 1..MaxPages : \E response \in CycleListings :
          LET r == pull_my_subscriptions(policy, usages,
                                         HostLocalNow(now, hostOffset),
                                         channels, pages, response)
          IN /\ usages' = r.usages
             /\ channels' = r.channels
             /\ loc' = [loc EXCEPT !.recently = r.recently]
             /\ pc' = IF r.raised THEN "crashed" ELSE "interval"
    /\ UNCHANGED <<now, hostOffset, env, creds, call, policy, videos, executed,
                   events, cycles>>

\* main.py lines 33-34
CycleInterval ==
    /\ pc = "interval"
    /\ loc' = [loc EXCEPT !.interval = calculate_interval_between_cycles(channels)]
    /\ pc' = IF loc.recently # << >> THEN "videos" ELSE "sleep"
    /\ UNCHANGED <<now, hostOffset, env, creds, call, dbVars, executed, events,
                   cycles>>

\* main.py line 35
CycleVideos ==
    /\ pc = "videos"
    /\ \E body \in CycleBodies(now) :
          LET r == get_recent_videos(policy, usages,
                                     HostLocalNow(now, hostOffset), videos,
                                     loc.recently,
                                     [i \in 1..Len(loc.recently) |-> body])
          IN /\ usages' = r.usages
             /\ videos' = r.videos
             /\ loc' = [loc EXCEPT !.found = r.found]
             /\ pc' = IF r.raised THEN "crashed" ELSE "notify"
    /\ UNCHANGED <<now, hostOffset, env, creds, call, policy, channels,
                   executed, events, cycles>>

\* main.py line 36
CycleNotify ==
    /\ pc = "notify"
    /\ pc' = "sleep"
    /\ UNCHANGED <<now, hostOffset, env, creds, call, dbVars, loc, executed,
                   events, cycles>>

CycleSleep_first_interval ==
    /\ pc = "sleep"
    /\ now' = now + calculate_interval_between_cycles({})
    /\ loc' = [loc EXCEPT !.sleeps = @ + 1,
                          !.slept = calculate_interval_between_cycles({})]
    /\ pc' = "loop"
    /\ UNCHANGED <<hostOffset, env, creds, call, dbVars, executed, events,
                   cycles>>

\* main.py lines 38-39: time.sleep(interval_between_checks)
CycleSleep ==
    /\ pc = "sleep"
    /\ now' = now + loc.interval
    /\ loc' = [loc EXCEPT !.sleeps = @ + 1, !.slept = loc.interval]
    /\ pc' = "loop"
    /\ UNCHANGED <<hostOffset, env, creds, call, dbVars, executed, events,
                   cycles>>

NextCycle ==
    \/ CycleStart
    \/ CycleInitializePolicy
    \/ CycleInitializeUsage
    \/ CycleGetService
    \/ CyclePull
    \/ CycleInterval
    \/ CycleVideos
    \/ CycleNotify
    \/ CycleSleep

SpecCycle == InitCycle /\ [][NextCycle]_vars

\* ================================================================ claims

\* the credential that _load_credential found when the last call began
StoredAtEntry == load_credential(call.pre)

\* C6: _is_expired returns true iff expiry - now <= margin, false for every
\* margin when the expiry is unset, and reads a naive timestamp as UTC.
C6_IsExpiredIffWithinMargin ==
    call.op = "is_expired" =>
        IF call.expiry = Null THEN call.result = FALSE
        ELSE IF call.expiry.aware
        THEN call.result <=>
                (call.expiry.wall - call.expiry.utcoffset) - call.t <= call.margin
        ELSE call.result <=> call.expiry.wall - call.t <= call.margin

\* a naive expiry exactly margin seconds ahead: expired
C6_Witness ==
    /\ call.op = "is_expired"
    /\ call.expiry # Null
    /\ ~call.expiry.aware
    /\ call.expiry.wall - call.t = call.margin
    /\ call.result

\* C7: refresh_credential on a row with an empty or missing refresh token
\* removes the row, returns None and makes no token-endpoint call.
C7_NoRefreshTokenDeletes ==
    (call.op = "refresh" /\ call.arg.refresh_token \in {"None", ""}) =>
        /\ call.result = Null
        /\ call.exchanges = 0
        /\ creds = call.pre \ {call.arg}

C7_Witness ==
    /\ call.op = "refresh"
    /\ call.arg.refresh_token = ""
    /\ call.arg \in call.pre
    /\ call.arg \notin creds

\* C8: when the exchange in refresh_credential fails, one exchange was made,
\* the stale row is removed and None is returned.
C8_FailedRefreshDeletesOnce ==
    (/\ call.op = "refresh"
     /\ call.arg.refresh_token \notin {"None", ""}
     /\ ~call.net.ok) =>
        /\ call.exchanges = 1
        /\ call.result = Null
        /\ creds = call.pre \ {call.arg}

C8_Witness ==
    /\ call.op = "refresh"
    /\ call.arg.refresh_token = "rt1"
    /\ ~call.net.ok
    /\ call.arg \in call.pre
    /\ creds = {}

\* C9: a successful refresh updates the row in place: as many rows as before,
\* the same id, the response's access token and expiry, the identity fields
\* as they were.
C9_RefreshUpdatesInPlace ==
    (call.op = "refresh" /\ call.result # Null) =>
        /\ Cardinality(creds) = Cardinality(call.pre)
        /\ call.result.id = call.arg.id
        /\ creds = (call.pre \ {call.arg}) \cup {call.result}
        /\ call.result.access_token = call.net.access_token
        /\ call.result.expiry =
              (IF call.net.expires_in = {} THEN Null
               ELSE Naive(call.t + Max(call.net.expires_in)))
        /\ call.result.client_id = call.arg.client_id
        /\ call.result.client_secret = call.arg.client_secret
        /\ call.result.user_id = call.arg.user_id
        /\ call.result.user_email = call.arg.user_email

\* a refresh that changed the token and the expiry of a row with a known user
C9_Witness ==
    /\ call.op = "refresh"
    /\ call.result # Null
    /\ call.arg.user_id = "uid1"
    /\ call.arg.client_id = "cid"
    /\ call.result.access_token # call.arg.access_token
    /\ call.result.expiry # call.arg.expiry
    /\ call.result \in creds

\* C10: get_authenticated_youtube_service recovers in a fixed order.  A stored
\* credential that is not expired is used with no refresh and no device grant;
\* an expired one is refreshed first; a device grant starts only with no
\* stored credential or right after a refresh that returned None; None is
\* returned only when the last step taken was a failed device grant or a
\* failed build.
C10_RecoveryOrder ==
    call.op = "get_service" =>
        LET tr == call.trace
            stored == StoredAtEntry
            expired == /\ stored # Null
                       /\ stored.expiry # Null
                       /\ stored.expiry.wall - call.t <= REFRESH_MARGIN_SECONDS
        IN /\ tr[1] = "load"
           /\ (stored # Null /\ ~expired) =>
                 /\ tr \in {<<"load", "build:ok">>, <<"load", "build:failed">>}
                 /\ creds = call.pre
           /\ expired => tr[2] \in RefreshSteps
           /\ \A i \in 2..Len(tr) :
                 tr[i] \in DeviceSteps =>
                    \/ i = 2 /\ stored = Null
                    \/ tr[i - 1] = "refresh:None"
           /\ \A i \in 2..Len(tr) :
                 tr[i] = "refresh:None" => i < Len(tr) /\ tr[i + 1] \in DeviceSteps
           /\ (call.result = "None" /\ ~call.raised) =>
                 tr[Len(tr)] \in {"device_auth:None", "build:failed"}
           /\ call.result = "service" => tr[Len(tr)] = "build:ok"

\* the whole chain: a stored credential had expired, the refresh returned
\* None, the device grant that followed succeeded and the service was built
C10_Witness ==
    /\ call.op = "get_service"
    /\ StoredAtEntry # Null
    /\ call.trace = <<"load", "refresh:None", "device_auth:row", "build:ok">>
    /\ call.result = "service"


\* C1: in every QuotaUsage row usage_count + quota_remaining is the policy's
\* limit, whatever initialize_usage calls and increments were made.
C1_UsagePlusRemainingIsLimit ==
    \A i \in 1..Len(usages) :
        /\ policy # Null
        /\ usages[i].config_id = policy.id
        /\ usages[i].usage_count + usages[i].quota_remaining = policy.limit

\* two windows: the older one used up, so that it rejects every increment,
\* and units taken from the newer one by the last increment
C1_Witness ==
    /\ Len(usages) = 2
    /\ usages[1].quota_remaining = 0
    /\ usages[2].usage_count > 0
    /\ call.op = "increment"
    /\ call.row = 2
    /\ ~call.raised

\* C3: an increment of units raises whenever units > quota_remaining of the
\* current window's row and then leaves the row as it was; otherwise it adds
\* units to usage_count and takes them from quota_remaining.
C3_IncrementRaisesOrCounts ==
    (call.op = "increment" /\ call.row # 0) =>
        LET before == call.pre[call.row]
            after == usages[call.row]
        IN /\ Len(usages) = Len(call.pre)
           /\ \A j \in 1..Len(usages) : j # call.row => usages[j] = call.pre[j]
           /\ IF call.units > before.quota_remaining
              THEN call.raised /\ after = before
              ELSE /\ ~call.raised
                   /\ after.usage_count = before.usage_count + call.units
                   /\ after.quota_remaining = before.quota_remaining - call.units
                   /\ after.window_start = before.window_start
                   /\ after.window_end = before.window_end

\* an increment that took exactly the units that were left
C3_Witness ==
    /\ call.op = "increment"
    /\ call.row # 0
    /\ call.units = MaxUnits
    /\ call.pre[call.row].quota_remaining = call.units
    /\ ~call.raised
    /\ usages[call.row].quota_remaining = 0

\* C2: within one quota window the units of the requests the polling path
\* has executed (subscription pages and playlist lookups) never exceed the
\* policy's limit.
C2_ExecutedWithinLimit ==
    \A d \in Days : executed[d] <= YOUTUBE_DAILY_LIMIT

\* the operation whose availability check opened the current call chain
CheckedOp == events[1].op

Skipped ==
    IF CheckedOp = "pull_my_subscriptions" THEN loc.subs = "skipped"
    ELSE loc.vids = "skipped"

\* C4: pull_my_subscriptions and get_recent_videos execute their first
\* request iff the current window's quota_remaining was above 0 at entry;
\* with quota_remaining <= 0 they return the skipped result, having executed
\* no request, raised nothing and changed neither the ledger nor the channel
\* and video stores.
C4_FirstRequestIffQuotaAtEntry ==
    (/\ events # << >>
     /\ events[1].kind = "check"
     /\ loc.entry.row # 0) =>
        IF loc.entry.remaining > 0
        THEN /\ ~Skipped
             /\ IF Len(events) = 1
                THEN pc = (IF CheckedOp = "pull_my_subscriptions"
                           THEN "pull_execute" ELSE "videos_execute")
                ELSE events[2].kind = "execute"
        ELSE /\ Skipped
             /\ Len(events) = 1
             /\ ~events[1].raised
             /\ pc \notin {"crashed", "pull_execute", "videos_execute"}
             /\ usages = loc.entry.usages
             /\ channels = loc.entry.channels
             /\ videos = loc.entry.videos

\* the subscription pull used the last unit and flagged a channel, and
\* get_recent_videos returned [] with nothing left
C4_Witness ==
    /\ events # << >>
    /\ events[1].kind = "check"
    /\ events[1].op = "get_recent_videos"
    /\ loc.entry.row # 0
    /\ loc.entry.remaining = 0
    /\ loc.subs = "done"
    /\ loc.vids = "skipped"
    /\ pc = "notify"

\* C5: every request execution of the polling path comes right after an
\* availability check of its own, and none is executed with
\* quota_remaining <= 0.
C5_EveryExecuteChecked ==
    \A i \in 1..Len(events) :
        events[i].kind = "execute" =>
            /\ i > 1
            /\ events[i - 1].kind = "check"
            /\ events[i].row # 0
            /\ events[i].remaining > 0

\* C11: get_authenticated_youtube_service never raises: whatever fails (the
\* device-code fetch, a token poll and its transport, the profile fetch, the
\* refresh, the build), it returns None to its caller.
C11_ServiceNeverRaises ==
    call.op = "get_service" =>
        /\ ~call.raised
        /\ call.result \in {"service", "None"}

\* C12: with no stored credential, get_authenticated_youtube_service starts
\* the device grant only when force_auth is true; with force_auth false it
\* returns None and starts no device grant.
C12_DeviceGrantOnlyWhenForced ==
    (/\ call.op = "get_service"
     /\ StoredAtEntry = Null
     /\ ~call.force_auth) =>
        /\ \A i \in 1..Len(call.trace) : call.trace[i] \notin DeviceSteps
        /\ call.result = "None"

\* C13: in every device grant that reaches polling, the verification URL and
\* the user code are shown before the first poll request is sent.
C13_CodeShownBeforeFirstPoll ==
    (call.op = "device_auth" /\ Member("poll", call.trace)) =>
        \E i \in 1..Len(call.trace) :
            /\ call.trace[i] = "show_code"
            /\ \A j \in 1..Len(call.trace) : call.trace[j] = "poll" => i < j

\* a grant that polled twice and succeeded
C13_Witness ==
    /\ call.op = "device_auth"
    /\ Count("poll", call.trace) = 2
    /\ call.outcome = "success"

\* the script is k pending answers and then a success, and the k-th wait ends
\* before the deadline, so that the success is asked for
PendingThenSuccess(dev) ==
    \E k \in 0..(Len(dev.polls) - 1) :
        /\ \A i \in 1..k : dev.polls[i] = "authorization_pending"
        /\ dev.polls[k + 1] = "success"
        /\ k * dev.interval < dev.expires_in

\* C14: when the token endpoint answers authorization_pending some number of
\* times before the deadline and then succeeds, authenticate_with_device_code
\* adds exactly one row, with the response's access and refresh token and
\* expiry = the clock then + expires_in, and returns it; the user id and
\* email are set iff the profile fetch worked.
C14_GrantStoresOneRow ==
    (/\ call.op = "device_auth"
     /\ ~NoClient(env)
     /\ call.net.fetch_ok
     /\ PendingThenSuccess(call.net)) =>
        /\ ~call.raised
        /\ call.result # Null
        /\ call.result \notin call.pre
        /\ \A r \in call.pre : r.id # call.result.id
        /\ creds = call.pre \cup {call.result}
        /\ call.result.access_token = call.net.access_token
        /\ call.result.refresh_token = call.net.refresh_token
        /\ call.result.expiry =
              (IF call.net.expires_in_secs = {} THEN Null
               ELSE Naive(now + Max(call.net.expires_in_secs)))
        /\ now = call.t + Len(call.net.polls) * call.net.interval
        /\ call.result.client_id = env.client_id
        /\ call.result.client_secret = env.client_secret
        /\ call.result.user_id = (IF call.net.profile_ok THEN "uid1" ELSE "None")
        /\ call.result.user_email = (IF call.net.profile_ok THEN "u1@e" ELSE "None")

\* one pending answer, then success with a lifetime, the profile fetch
\* failing, next to a row stored earlier
C14_Witness ==
    /\ call.op = "device_auth"
    /\ call.net.polls = <<"authorization_pending", "success">>
    /\ ~call.net.profile_ok
    /\ call.net.expires_in_secs # {}
    /\ call.pre = {StoredCredential}
    /\ Cardinality(creds) = 2
    /\ call.result \in creds
    /\ call.result.user_id = "None"

\* C15: on every abort of the device grant (client id or secret missing, the
\* device-code fetch failing, access_denied or expired_token while polling,
\* the deadline passed) authenticate_with_device_code returns None and leaves
\* the credential store as it was; with the client id or secret missing it
\* makes no network call.
C15_AbortLeavesStore ==
    (/\ call.op = "device_auth"
     /\ \/ NoClient(env)
        \/ ~call.net.fetch_ok
        \/ call.outcome \in {"error", "deadline"}) =>
        /\ call.result = Null
        /\ ~call.raised
        /\ creds = call.pre
        /\ NoClient(env) => call.trace = << >>
        /\ call.outcome = "error" =>
              call.net.polls[Len(call.waits)] \in {"access_denied", "expired_token"}

\* the user never answered: the deadline passed after the last poll, a
\* stored row untouched
C15_Witness ==
    /\ call.op = "device_auth"
    /\ call.outcome = "deadline"
    /\ Len(call.waits) = MaxDeviceExpiry
    /\ call.pre = {StoredCredential}
    /\ creds = call.pre

\* _is_expired with the default margin, for a row's naive UTC expiry
ExpiredAt(r, t) ==
    r.expiry # Null /\ r.expiry.wall - t <= REFRESH_MARGIN_SECONDS

\* C16: revoke_expired_tokens does not raise when the revoke request fails;
\* after it every credential that was expired and had no refresh token is
\* deleted, whatever the revoke request did, and every credential that was
\* not expired is as it was.
C16_RevokeDeletesUnrefreshable ==
    call.op = "revoke" =>
        /\ ~call.raised
        /\ \A r \in call.pre :
              /\ (ExpiredAt(r, call.t) /\ r.refresh_token \in {"None", ""}) =>
                    \A q \in creds : q.id # r.id
              /\ ~ExpiredAt(r, call.t) => r \in creds

\* two rows: one expired, without refresh token, its revoke request failing;
\* one not expired
C16_Witness ==
    /\ call.op = "revoke"
    /\ Cardinality(call.pre) = 2
    /\ \E r \in call.pre :
          /\ ExpiredAt(r, call.t)
          /\ r.refresh_token = "None"
          /\ r.access_token = "at0"
          /\ ~call.net[r.id].revoke_ok
    /\ Cardinality(creds) = 1
    /\ \E r \in creds : r \in call.pre /\ r.expiry # Null /\ ~ExpiredAt(r, call.t)

\* a subscription sweep has just returned its result to main()
SweepDone == pc = "interval" /\ loc.subs = "done"

\* the row of channel id before the sweep, Null if it was not stored
StoredBeforeSweep(id) == StoredChannel(loc.entry.channels, id)

\* C17: a sweep flags a channel as recently uploaded iff the channel was
\* stored before the sweep and its listed totalItemCount is its stored
\* num_videos + 1; a channel seen for the first time, a jump of more than
\* one, an equal and a lower count are not flagged.
C17_FlaggedIffCountPlusOne ==
    SweepDone =>
        /\ \A id \in ChannelIds :
              Member(id, loc.recently) <=>
                 \E i \in 1..Len(loc.response) :
                     /\ loc.response[i].channelId = id
                     /\ StoredBeforeSweep(id) # Null
                     /\ loc.response[i].totalItemCount =
                           StoredBeforeSweep(id).num_videos + 1
        /\ \A id \in ChannelIds : Count(id, loc.recently) <= 1

\* UCa went from 0 to 1 and is flagged, UCb went from 1 to 0 and is not
C17_Witness ==
    /\ SweepDone
    /\ loc.entry.channels # {}
    /\ loc.response = <<Item("UCa", 1), Item("UCb", 0)>>
    /\ loc.recently = <<"UCa">>

\* C18: after a completed sweep every listed channel's stored num_videos is
\* the totalItemCount the sweep reported, also after a jump or a decrease,
\* and no step other than the sweep's diff changes a stored num_videos.
C18_CountFollowsSweep ==
    /\ [](SweepDone =>
            \A i \in 1..Len(loc.response) :
                [id |-> loc.response[i].channelId,
                 num_videos |-> loc.response[i].totalItemCount] \in channels)
    /\ [][pc # "pull_diff" =>
            \A ch \in channels : \A c2 \in channels' :
                c2.id = ch.id => c2.num_videos = ch.num_videos]_vars

\* UCa jumped from 0 to 2, UCb went down from 1 to 0; both counts are stored
C18_Witness ==
    /\ SweepDone
    /\ loc.entry.channels # {}
    /\ loc.response = <<Item("UCa", 2), Item("UCb", 0)>>
    /\ channels = {[id |-> "UCa", num_videos |-> 2],
                   [id |-> "UCb", num_videos |-> 0]}

\* C19: the polling path deletes no stored channel: a channel stored before
\* a sweep and absent from its listing is still stored after it, with the
\* num_videos it had.
C19_SweepKeepsUnlistedChannels ==
    SweepDone =>
        \A ch \in loc.entry.channels :
            (\A i \in 1..Len(loc.response) : loc.response[i].channelId # ch.id)
                => ch \in channels

\* C20: at most one Video row is stored per channel, whatever
\* get_recent_videos calls were made: a detection replaces the channel's row.
C20_OneVideoPerChannel ==
    \A v \in videos : \A w \in videos :
        v.youtube_channel_id = w.youtube_channel_id => v = w

\* get_recent_videos found b2 for UCb, which had b1 stored, and a1 for UCa
C20_Witness ==
    /\ pc = "notify"
    /\ loc.vids = "done"
    /\ Len(loc.found) = 2
    /\ {<<v.id, v.youtube_channel_id>> : v \in videos} =
          {<<"a1", "UCa">>, <<"b2", "UCb">>}

\* k = ceil(a / b) and k = floor(a / b), for b > 0
IsCeilOf(k, a, b) == k * b >= a /\ (k - 1) * b < a
IsFloorOf(k, a, b) == k * b <= a /\ (k + 1) * b > a

\* C21: for N stored channels calculate_interval_between_cycles returns
\* ceil(86400 / floor(10000 / ceil((N + 1) / 50))): 9 for N = 1, 26 for
\* N = 100, 96 for N = 500.
C21_IntervalFormula ==
    call.op = "calculate_interval" =>
        LET N == Cardinality(channels)
        IN /\ \E r \in 1..N + 1 :
                 /\ IsCeilOf(r, N + 1, 50)
                 /\ \E c \in 1..10000 :
                       /\ IsFloorOf(c, 10000, r)
                       /\ IsCeilOf(call.result, 86400, c)
           /\ N = 1 => call.result = 9
           /\ N = 100 => call.result = 26
           /\ N = 500 => call.result = 96

\* 100 channels: 3 requests a cycle, 3333 cycles a day, 26 seconds
C21_Witness ==
    /\ call.op = "calculate_interval"
    /\ Cardinality(channels) = 100
    /\ call.result = 26

\* C22: the polling loop ends only when a cycle obtains no service, and then
\* by exit(1) with no request executed in that cycle; once a cycle holds a
\* service nothing ends the loop, in particular no state of the quota ledger.
C22_LoopEndsOnlyWithoutService ==
    /\ pc = "exited" => /\ loc.youtube = "None"
                        /\ events = << >>
    /\ pc = "crashed" => loc.youtube # "service"

\* the rows of the daily window the reset timezone's clock is in at t
WindowRows(us, t) ==
    {i \in 1..Len(us) : /\ us[i].window_start = (t \div DaySeconds) * DaySeconds
                        /\ us[i].window_end = us[i].window_start + DaySeconds - 1}

\* C23: initialize_policy and initialize_usage are idempotent: a repeated
\* call in the same window adds no row and leaves the existing row's
\* usage_count and quota_remaining as they were; there is never more than one
\* usage row for a window.
C23_InitializeIdempotent ==
    /\ (call.op = "initialize_policy" /\ call.prePolicy # Null) =>
          /\ policy = call.prePolicy
          /\ usages = call.pre
    /\ (call.op = "initialize_usage" /\ WindowRows(call.pre, call.t) # {}) =>
          /\ ~call.raised
          /\ policy = call.prePolicy
          /\ usages = call.pre
    /\ \A i \in 1..Len(usages) : \A j \in 1..Len(usages) :
          usages[i].window_start = usages[j].window_start => i = j

\* initialize_usage called again in the second window, whose row has been
\* used since it was created
C23_Witness ==
    /\ call.op = "initialize_usage"
    /\ Len(call.pre) = 2
    /\ WindowRows(call.pre, call.t) = {2}
    /\ call.pre[2].usage_count > 0
    /\ usages = call.pre

\* C24: initialize_usage in a new daily window adds one usage row with
\* usage_count = 0 and quota_remaining = policy.limit and leaves every row of
\* an earlier window unchanged.
C24_NewWindowRow ==
    (/\ call.op = "initialize_usage"
     /\ call.prePolicy # Null
     /\ WindowRows(call.pre, call.t) = {}) =>
        /\ ~call.raised
        /\ Len(usages) = Len(call.pre) + 1
        /\ \A i \in 1..Len(call.pre) : usages[i] = call.pre[i]
        /\ WindowRows(usages, call.t) = {Len(usages)}
        /\ usages[Len(usages)].usage_count = 0
        /\ usages[Len(usages)].quota_remaining = call.prePolicy.limit
        /\ usages[Len(usages)].config_id = call.prePolicy.id

\* the day after a window in which units were used
C24_Witness ==
    /\ call.op = "initialize_usage"
    /\ Len(call.pre) = 1
    /\ WindowRows(call.pre, call.t) = {}
    /\ call.pre[1].quota_remaining = 0
    /\ Len(usages) = 2
    /\ usages[1] = call.pre[1]
    /\ usages[2].quota_remaining = YOUTUBE_DAILY_LIMIT

\* C25: in a cycle that began with initialize_usage after initialize_policy,
\* every quota check and increment of the polling path finds the usage row of
\* the current window: the lookup never fails as not initialized, whatever
\* the host's timezone and also when the cycle straddles the daily reset.
C25_LookupFindsWindow ==
    \A i \in 1..Len(events) :
        /\ events[i].kind = "check" => ~events[i].raised
        /\ events[i].kind = "increment" => events[i].row # 0

\* C26: a quota check or increment whose lookup finds no policy row or no
\* current usage row, and initialize_usage without a policy row, raise and
\* leave the ledger unchanged.
C26_MissingRowsRaise ==
    /\ (call.op \in {"increment", "check_available"} /\ call.row = 0) =>
          /\ call.raised
          /\ policy = call.prePolicy
          /\ usages = call.pre
    /\ (call.op = "initialize_usage" /\ call.prePolicy = Null) =>
          /\ call.raised
          /\ policy = call.prePolicy
          /\ usages = call.pre

\* a check made with the policy and yesterday's row stored, and no row for
\* the host's today
C26_Witness ==
    /\ call.op = "check_available"
    /\ call.row = 0
    /\ call.prePolicy # Null
    /\ Len(call.pre) = 1
    /\ call.raised
    /\ usages = call.pre

\* C27: two processes interleaving quota increments on one store leave what
\* some serial order of the increments leaves: every unit of an increment
\* that returned is counted, usage_count + quota_remaining is the limit and
\* quota_remaining is not below 0.
C27_IncrementsSerializable ==
    (usages # << >> /\ \A p \in Procs : loc[p].pc = "idle") =>
        /\ usages[1].usage_count = call.pre[1].usage_count + executed
        /\ usages[1].quota_remaining = call.pre[1].quota_remaining - executed
        /\ usages[1].usage_count + usages[1].quota_remaining = policy.limit
        /\ usages[1].quota_remaining >= 0

\* C28: get_recent_videos returns no video that was already stored for its
\* channel when the call began, so no video is handed to the notification
\* twice.
C28_StoredVideoNotReturned ==
    \A i \in 1..Len(loc.found) :
        \A v \in loc.entry.videos :
            ~(/\ v.id = loc.found[i].id
              /\ v.youtube_channel_id = loc.found[i].youtube_channel_id)

\* C29: get_recent_videos adds to the list it returns no public video whose
\* publish time lies further back than the cycle interval.
C29_OldVideoNotReturned ==
    [][(pc = "videos_increment" /\ Len(loc'.found) > Len(loc.found)) =>
          loc'.found[Len(loc'.found)].uploaded_at >= now - loc.interval]_vars

\* the increments of the current get_recent_videos call that were counted
CountedLookups ==
    {i \in 1..Len(events) : /\ events[i].kind = "increment"
                            /\ ~events[i].raised}

\* C30: when the latest playlist item of a flagged channel is not public,
\* get_recent_videos returns no video for the channel and leaves the
\* channel's stored Video row as it was, and the lookup has consumed one
\* quota unit like every other.
C30_NonPublicSkipped ==
    (loc.item # Null /\ loc.item.body.privacyStatus # "public") =>
        /\ \A i \in 1..Len(loc.found) :
              loc.found[i].youtube_channel_id # loc.item.channel_id
        /\ {v \in videos : v.youtube_channel_id = loc.item.channel_id} =
              {v \in loc.entry.videos :
                  v.youtube_channel_id = loc.item.channel_id}
        /\ Cardinality(CountedLookups) = Len(loc.recently) - Len(loc.queue)
        /\ \A r \in 1..Len(usages) :
              usages[r].quota_remaining =
                  loc.entry.usages[r].quota_remaining -
                      Cardinality({i \in CountedLookups : events[i].row = r})

\* UCb, whose video b1 is stored, was flagged and its latest item is private
C30_Witness ==
    /\ pc = "notify"
    /\ loc.item # Null
    /\ loc.item.channel_id = "UCb"
    /\ loc.item.body.privacyStatus = "private"
    /\ loc.item.body.videoId = "b2"
    /\ \E v \in videos : v.id = "b1"
    /\ Len(loc.recently) = 2
    /\ Len(loc.found) = 1

\* C31: after k iterations of main()'s loop get_authenticated_youtube_service
\* has been called exactly k times.
C31_OneServiceCallPerIteration ==
    (pc = "loop" /\ cycles >= 1) => executed = cycles

RECURSIVE PollTime(_, _)
PollTime(waits, k) == IF k = 0 THEN 0 ELSE PollTime(waits, k - 1) + waits[k]

\* C33: _poll_for_tokens returns at the first success, at the first error
\* other than authorization_pending and slow_down, or once the deadline has
\* passed, and sends no poll request after the deadline has passed.
C33_NoPollAfterDeadline ==
    call.op = "device_auth" =>
        /\ call.outcome = "deadline" =>
              PollTime(call.waits, Len(call.waits)) >= call.net.expires_in
        /\ \A k \in 1..Len(call.waits) :
              /\ PollTime(call.waits, k) <= call.net.expires_in
              /\ k < Len(call.waits) =>
                    ResponseAt(call.net.polls, k) \in
                        {"authorization_pending", "slow_down"}

\* C34: the wait before the next poll is the previous wait after
\* authorization_pending and the previous wait plus 5 seconds after
\* slow_down; the wait never decreases, and after both answers the polling
\* goes on until the deadline.
C34_WaitsFollowAnswers ==
    call.op = "device_auth" =>
        \A k \in 1..Len(call.waits) :
            LET answer == ResponseAt(call.net.polls, k)
            IN answer \in {"authorization_pending", "slow_down"} =>
                  IF k < Len(call.waits)
                  THEN /\ call.waits[k + 1] >= call.waits[k]
                       /\ call.waits[k + 1] =
                             call.waits[k] + (IF answer = "slow_down" THEN 5
                                              ELSE 0)
                  ELSE /\ call.outcome = "deadline"
                       /\ PollTime(call.waits, k) >= call.net.expires_in

\* slow_down, then pending answers until the long device code expires
C34_Witness ==
    /\ call.op = "device_auth"
    /\ call.net.polls = <<"slow_down">>
    /\ call.waits = <<1, 6, 6>>
    /\ call.outcome = "deadline"

\* C35: healthcheck exits with code 0 iff an authenticated service was
\* obtained and the channel lookup answered with at least one item and
\* totalResults >= 1; in every other case it exits with code 1.
C35_HealthcheckExitCode ==
    call.op = "healthcheck" =>
        /\ call.code \in {0, 1}
        /\ call.code = 0 <=>
              /\ call.youtube = "service"
              /\ call.response.ok
              /\ \E n \in call.response.items : n >= 1
              /\ \E n \in call.response.totalResults : n >= 1

\* a service from the stored credential, a channel listed, totalResults 0
C35_Witness ==
    /\ call.op = "healthcheck"
    /\ call.pre # {}
    /\ call.youtube = "service"
    /\ call.response = [ok |-> TRUE, items |-> {1}, totalResults |-> {0}]
    /\ call.code = 1

\* C36: for every instant and daily reset time next_daily_reset_utc returns
\* an instant after now and at most one day after it, and
\* current_reset_window_utc returns (start, end) with end that instant,
\* end - start one day and start <= now < end.
C36_ResetWindowHoldsNow ==
    call.op = "reset_window" =>
        /\ call.next > call.now_utc
        /\ call.next <= call.now_utc + 24 * 60
        /\ call.window[2] = call.next
        /\ call.window[2] - call.window[1] = 24 * 60
        /\ call.window[1] <= call.now_utc
        /\ call.now_utc < call.window[2]

\* C37: from a table of at most one credential, every sequence of
\* get_authenticated_youtube_service, refresh_credential and
\* revoke_expired_tokens calls, whatever the provider answers, leaves at most
\* one credential row.
C37_AtMostOneCredential == Cardinality(creds) <= 1

\* the stored row failed to refresh and a device grant replaced it
C37_Witness ==
    /\ call.op = "get_service"
    /\ Cardinality(call.pre) = 1
    /\ Member("refresh:None", call.trace)
    /\ Member("device_auth:row", call.trace)
    /\ Cardinality(creds) = 1

\* C38: one call of get_authenticated_youtube_service runs the device-grant
\* flow at most once, whatever the table held and whatever lifetime the
\* provider gave the token.
C38_DeviceGrantAtMostOnce ==
    call.op = "get_service" =>
        Cardinality({i \in 1..Len(call.trace) : call.trace[i] \in DeviceSteps}) <= 1

\* C39: after any sequence of listing sweeps and get_recent_videos calls,
\* every stored video row references a channel that is in the channel table.
C39_VideosReferenceStoredChannels ==
    \A v \in videos : \E ch \in channels : ch.id = v.youtube_channel_id

\* C40: for N stored channels, with r = ceil((N + 1) / 50) <= 10000 requests
\* a cycle, the interval I of calculate_interval_between_cycles is at least 1
\* and floor(86400 / I) cycles of r requests stay within 10000 requests a day.
C40_IntervalKeepsDailyBudget ==
    call.op = "calculate_interval" =>
        LET N == Cardinality(channels)
            I == call.result
        IN \A r \in 1..10000 :
              IsCeilOf(r, N + 1, 50) =>
                  /\ I >= 1
                  /\ (86400 \div I) * r <= 10000

\* 50 channels: 2 requests a cycle, 18 seconds, 4800 cycles, 9600 requests
C40_Witness ==
    /\ call.op = "calculate_interval"
    /\ Cardinality(channels) = 50
    /\ call.result = 18
    /\ (86400 \div call.result) * 2 = 9600

====
